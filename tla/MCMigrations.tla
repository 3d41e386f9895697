------------------------------ MODULE MCMigrations ------------------------------
EXTENDS OrmSchema, TLC
=============================================================================
