-------------------------- MODULE DriftClassifier --------------------------
(***************************************************************************)
(* classifyDrift: the files a task has touched without declaring them.     *)
(* Those of a gen or migration task may be committed without a question    *)
(* when they lie in its scope.  A path, normalized, is the sequence of its *)
(* segments; a directory is a path too.                                    *)
(***************************************************************************)
EXTENDS Integers, Sequences, FiniteSets, SequencesExt

BULK_KINDS == {"gen", "migration"}
MIGRATION_HARDCODED_PREFIX == <<"apps", "server", "prisma", "migrations">>

\* The safety valves of a scope that is derived.
AUTO_LCD_BLACKLIST ==
    {<<>>, <<"apps">>, <<"apps", "server">>, <<"apps", "server", "src">>, <<"apps", "mobile">>,
     <<"apps", "mobile", "src">>, <<"packages">>, <<"docs">>, <<"prisma">>}
MIN_DECLARED_FILES_FOR_AUTO_LCD == 2
MIN_AUTO_LCD_DEPTH == 3

\* Registries any task may have to touch.
GOVERNANCE_ALLOWLIST ==
    {<<"scripts", "checks", "check-server-moat.ts">>,
     <<"apps", "server", "src", "app", "app.module.ts">>,
     <<"apps", "server", "prisma", "schema.prisma">>, <<"eslint.config.mjs">>,
     <<"apps", "server", "eslint.config.mjs">>, <<"apps", "server", "openapi.json">>}
IsGovernanceFile(p) == p \in GOVERNANCE_ALLOWLIST

\* The longest directory above every file of P; <<>> when there is none.
LongestCommonDir(P) ==
    LET Above(p) == {SubSeq(p, 1, n) : n \in 0..Len(p) - 1}
        common == {d \in UNION {Above(p) : p \in P} : \A p \in P : d \in Above(p)}
    IN CHOOSE d \in common : \A e \in common : Len(e) <= Len(d)

IsUnderAny(file, dirs) == \E d \in dirs : IsPrefix(d, file)

\* The scope of a task, {} for none: the migrations, what its author has declared,
\* or the common directory of its files.
ResolveGenScope(kind, genDirs, declared) ==
    LET lcd == LongestCommonDir(declared) IN
    IF kind = "migration" THEN {MIGRATION_HARDCODED_PREFIX}
    ELSE IF genDirs # {} THEN genDirs \ {<<>>}
    ELSE IF /\ Cardinality(declared) >= MIN_DECLARED_FILES_FOR_AUTO_LCD
            /\ lcd \notin AUTO_LCD_BLACKLIST
            /\ Len(lcd) >= MIN_AUTO_LCD_DEPTH
         THEN {lcd} ELSE {}

\* gen-fenced or needs-ralph, when there are orphans.
Fenced(kind, genDirs, declared, orphans) ==
    /\ kind \in BULK_KINDS
    /\ \A f \in orphans : IsUnderAny(f, ResolveGenScope(kind, genDirs, declared))
=============================================================================
