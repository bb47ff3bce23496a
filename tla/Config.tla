------------------------------- MODULE Config -------------------------------
(***************************************************************************)
(* The configuration of a job: package.py merges the part "_base" of the   *)
(* package's file with the one the submission names, and plugin_loader.py  *)
(* merges each section with the defaults of its plug-in.                   *)
(*                                                                         *)
(* A configuration is a tree: a mapping of keys to trees, or a value.      *)
(* Lists are values.  These are pure functions, so this module has no      *)
(* state; Grading calls them.                                              *)
(***************************************************************************)
EXTENDS SequencesExt

CONSTANTS
    Merge(_, _),    \* deep_update, a function that calls itself
    Depth           \* how deep the configurations of packages are nested

Value(v) == [kind |-> "value", value |-> v]
Mapping(f) == [kind |-> "mapping", entries |-> f]

EmptyMapping == Mapping([k \in {} |-> k])

\* An exception that main does not catch: TypeError, AttributeError or KeyError.
Uncaught == [kind |-> "uncaught"]

IsMapping(t) == t.kind = "mapping"
Keys(t) == IF IsMapping(t) THEN DOMAIN t.entries ELSE {}
Get(t, k) == t.entries[k]

\* The nodes of t at each depth, as pairs of a path and the tree at its end.
Level(t) ==
    LET level[n \in Nat] ==
            IF n = 0 THEN {<< <<>>, t >>}
            ELSE UNION {{<<Append(b[1], k), Get(b[2], k)>> : k \in Keys(b[2])} : b \in level[n - 1]}
    IN  level

Nodes(t) == UNION {Level(t)[n] : n \in 0..Depth}

\* The paths to the values and empty mappings of t, with what they lead to.
Leaves(t) == {b \in Nodes(t) : Keys(b[2]) = {}}

-----------------------------------------------------------------------------
(* package.py                                                              *)

\* Faulty variant: a nested mapping takes the place of what the source has.
ChildReplaced(source, k) == EmptyMapping

\* source.get(key, {})
Child(source, k) == IF k \in Keys(source) THEN Get(source, k) ELSE EmptyMapping

\* An exception below goes through every call above it.
Passing(t) == IF \E k \in Keys(t) : Get(t, k) = Uncaught THEN Uncaught ELSE t

\* The keys for which deep_update calls itself.
Nested(overrides) == {k \in Keys(overrides) : Keys(Get(overrides, k)) # {}}

\* What a nonempty mapping is merged to goes into the source, as does anything else
\* itself.  Only mappings have items, get and item assignment.
Updated(source, overrides, merged) ==
    CASE ~IsMapping(overrides) -> Uncaught
      [] IsMapping(overrides) /\ Keys(overrides) = {} -> source
      [] Keys(overrides) # {} /\ ~IsMapping(source) -> Uncaught
      [] OTHER -> Passing(Mapping([k \in Keys(overrides) \cup Keys(source) |->
            IF k \notin Keys(overrides) THEN Get(source, k)
            ELSE IF k \in Nested(overrides) THEN merged[k] ELSE Get(overrides, k)]))

deep_update(source, overrides) ==
    Updated(source, overrides,
            [k \in Nested(overrides) |-> Merge(Child(source, k), Get(overrides, k))])

\* What deep_update should be, said of paths: an override takes the place of what
\* is above and below it, all else stays.
Overridden(base, overrides) ==
    LET Apart(p, q) == ~IsPrefix(p, q) /\ ~IsPrefix(q, p) IN
    Leaves(overrides)
        \cup {b \in Leaves(base) : \A o \in Leaves(overrides) : Apart(b[1], o[1])}

\* Something inside a value cannot be overridden.
Incompatible(base, overrides) ==
    \E b \in Leaves(base), o \in Leaves(overrides) :
        ~IsMapping(b[2]) /\ b[1] # o[1] /\ IsPrefix(b[1], o[1])

MergeIsRight(base, overrides, merged) ==
    CASE Keys(overrides) = {} -> merged = IF IsMapping(overrides) THEN base ELSE Uncaught
      [] Incompatible(base, overrides) -> merged = Uncaught
      [] OTHER -> merged # Uncaught /\ Leaves(merged) = Overridden(base, overrides)

\* raw_config['configs'][name], and what a KeyError leaves instead.
Part(raw, name, missing) ==
    IF "configs" \in Keys(raw) /\ name \in Keys(Get(raw, "configs"))
    THEN Get(Get(raw, "configs"), name) ELSE missing

\* An empty or scalar file, or such "configs", cannot be indexed.
parse_config(raw, config_name) ==
    IF ~IsMapping(raw) \/ ("configs" \in Keys(raw) /\ ~IsMapping(Get(raw, "configs")))
    THEN Uncaught
    ELSE Merge(Part(raw, "_base", EmptyMapping), Part(raw, config_name, EmptyMapping))

-----------------------------------------------------------------------------
(* plugin_loader.py                                                        *)

\* What load_namespace found, by the section of a configuration that names it.
Plugins == [compiler |-> {"gcc"}, env |-> {"file", "pipe"},
            evaluator |-> {"basic"}, runner |-> {"bin"}, service_runner |-> {"bin"}]

\* The yml file of each plug-in; of the limits, all but timeout are "resources".
Limits(timeout) == Mapping([timeout |-> Value(timeout), resources |-> Value(1)])

Defaults ==
    [gcc |-> [limits |-> Limits(30000), inject_files |-> Value({})],
     bin |-> [limits |-> Limits(1000)],
     file |-> EmptyMapping.entries,
     pipe |-> [limits |-> Limits(1000)],
     basic |-> [slow_program_scale |-> Value("linear"), slow_program_threshold |-> Value(50),
                slow_program_penalty |-> Value(50)]]

\* config[section]['name'] and plugin_loader.get: an uncaught KeyError or
\* TypeError, a PluginLoaderError, or the plug-in.
Lookup(config, section) ==
    IF section \notin Keys(config) \/ "name" \notin Keys(Get(config, section)) THEN "uncaught"
    ELSE IF IsMapping(Get(Get(config, section), "name")) THEN "uncaught"
    ELSE IF Get(Get(config, section), "name").value \notin Plugins[section] THEN "raises"
    ELSE "found"

NameIn(config, section) == Get(Get(config, section), "name").value

\* get_custom_config: dict.update, so limits of the package replace all limits.
CustomConfig(config, section) ==
    Mapping(Get(config, section).entries @@ Defaults[NameIn(config, section)])

\* plugin_conf['limits'][limit] can be read.
HasLimit(custom, limit) ==
    "limits" \in Keys(custom) /\ limit \in Keys(Get(custom, "limits"))

\* pack.config['env']['tests'] cannot be indexed by the name of a test.
TestsUnreadable(config) ==
    "tests" \in Keys(Get(config, "env")) /\ ~IsMapping(Get(Get(config, "env"), "tests"))

\* pack.config['env']['tests'][test_name], {} if there is no such key.
Options(config, test) ==
    LET env == Get(config, "env") IN
    IF "tests" \in Keys(env) /\ test \in Keys(Get(env, "tests"))
    THEN Get(Get(env, "tests"), test) ELSE EmptyMapping

\* The options of a test that are no mapping cannot be indexed.
MaxPoints(options) ==
    IF "points" \in Keys(options) THEN Get(options, "points").value ELSE 1

=============================================================================
