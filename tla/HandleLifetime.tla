---------------------------- MODULE HandleLifetime ----------------------------
(***************************************************************************)
(* What the binding promises about the JavaScript objects of datasets,     *)
(* layers and raster bands, without the registries, caches and collector   *)
(* callbacks that keep the promise.                                        *)
(*                                                                         *)
(* A handle is born alive, a layer or a band under a dataset that is       *)
(* alive.  A handle dies when the program closes its dataset, which kills  *)
(* the whole tree at once, or when the collector takes it or its dataset,  *)
(* which it may only do to what the program cannot reach.  No handle comes *)
(* back to life.                                                           *)
(***************************************************************************)
CONSTANT Handle

VARIABLES
  born,     \* every handle there ever was
  live,     \* the handles that are alive
  root,     \* the objects that still exist, each with its dataset's handle
  held      \* the handles the program holds

vars == <<born, live, root, held>>

\* A layer or a band keeps its dataset within reach.
Reachable == held \cup {root[h] : h \in held}

Tree(r) == {h \in live : root[h] = r}

Init == /\ born = {} /\ live = {} /\ held = {}
        /\ root = << >>

\* A new handle h of the dataset r (r = h when h is a dataset).
Create(h, r) ==
  /\ h \notin born
  /\ r \in live \cup {h}
  /\ born' = born \cup {h}
  /\ live' = live \cup {h}
  /\ root' = [k \in DOMAIN root \cup {h} |-> IF k = h THEN r ELSE root[k]]
  /\ held' = held \cup {h}

\* The program gets another reference to a handle that is alive.
Hold(h) ==
  /\ h \in live
  /\ held' = held \cup {h}
  /\ UNCHANGED <<born, live, root>>

\* layer.ds and band.ds answer even when the dataset is closed.
HoldRoot(h) ==
  /\ h \in held
  /\ held' = held \cup {root[h]}
  /\ UNCHANGED <<born, live, root>>

Release(h) ==
  /\ held' = held \ {h}
  /\ UNCHANGED <<born, live, root>>

Close(r) ==
  /\ r \in live \cap held
  /\ root[r] = r
  /\ live' = live \ Tree(r)
  /\ UNCHANGED <<born, root, held>>

\* The collector destroys one object; a dataset takes its tree along.
Collect(h) ==
  /\ h \in DOMAIN root \ Reachable
  /\ live' = live \ (Tree(h) \cup {h})
  /\ root' = [k \in DOMAIN root \ {h} |-> root[k]]
  /\ UNCHANGED <<born, held>>

Next ==
  \/ \E h, r \in Handle : Create(h, r)
  \/ \E h \in Handle : \/ Hold(h) \/ HoldRoot(h) \/ Release(h)
                       \/ Close(h) \/ Collect(h)

Spec == Init /\ [][Next]_vars
===============================================================================
