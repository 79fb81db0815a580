----------------------------- MODULE MCLifecycle ----------------------------
(* A gateway whose file has one provider in two pools, the first open to    *)
(* every model, one of another type, which has no adapter, and one key; two *)
(* administrators, two requests.                                            *)
EXTENDS Lifecycle

CONSTANTS c1, c2, r1, r2, none

MCKeys     == {"f", "n"}
MCKeyList  == <<"f", "n">>
MCModels   == {"m1", "m2"}
MCConsoles == {c1, c2}
MCRequests == {r1, r2}
MCFilePools ==
  <<[name |-> "text", entries |-> <<[provider |-> "pf", models |-> {}]>>],
    [name |-> "code", entries |-> <<[provider |-> "pg", models |-> {}],
                                  [provider |-> "pf", models |-> {"m1"}]>>]>>
MCOwnerOf == [k \in {"f"} |-> "pf"]
MCPresets ==
  [p \in {"preset"} |-> [provider |-> "px", baseUrl |-> "url", pool |-> "own",
                      model |-> "m1"]]

MCBody(id, preset, provider, baseUrl, pool, model) ==
  [id |-> id, preset |-> preset, provider |-> provider, baseUrl |-> baseUrl,
   pool |-> pool, model |-> model]

\* A preset; the file's provider in its open pool; the key of the file moved
\* to the other pool; no pool; no base URL; a preset that does not exist.
MCBodies ==
  {MCBody("n", "preset", none, none, none, none),
   MCBody("n", none, "pf", "url", "text", "m2"),
   MCBody("f", none, "pf", "url", "code", none),
   MCBody("n", none, "pf", "url", none, none),
   MCBody("n", none, "pf", none, "text", none),
   MCBody("n", "other", "pf", "url", "text", "m2")}

=============================================================================
