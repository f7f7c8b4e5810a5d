---------------------------- MODULE MCDataSource ----------------------------
(* Instance of DataSource: every handler, its schema the default one or not. *)
EXTENDS DataSource

CONSTANTS p1, p2

MCProcs == {p1, p2}
MCConfigs ==
  ({"nodepg", "postgres", "drizzle", "knex", "kysely", "prisma", "typeorm"} \X {"dbos"} \X {"rw"})
  \cup {<<"knex", "app", "rw">>, <<"kysely", "app", "rw">>, <<"nodepg", "app", "ro">>}
TypeOrmConfigs == {<<"typeorm", "dbos", "rw">>}
=============================================================================
