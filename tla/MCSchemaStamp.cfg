SPECIFICATION SchemaSpec
CONSTANTS
    Replica = {r1}
    Alembic = alembic
    Earlier = {0, 1, 3, 5, 9, 13, 15, 17, 21, 25}
INVARIANT StampIsTrue
