------------------------------ MODULE OrderedFeed ------------------------------
(***************************************************************************)
(* What the sync service promises the devices of a vault, with no server   *)
(* in sight: a log that grows at its end, a store that keeps at least the  *)
(* newest revision of each path, and devices that hear of the log in       *)
(* order.  A device is told of every stored revision; only one building    *)
(* its first copy is spared revisions already superseded and tombstones of *)
(* paths it never heard of.                                                *)
(***************************************************************************)
EXTENDS Naturals

CONSTANTS
  Device,
  Path,
  Uid     \* the numbers revisions are given

VARIABLES
  log,    \* every revision ever committed, by uid
  rows,   \* uids still stored
  seen,   \* the point of the log each device has reached
  got,    \* uids each device has been told of
  fresh   \* the device is building its first copy

vars == <<log, rows, seen, got, fresh>>

IsHead(u) == u \in rows /\ \A w \in rows : log[w].path = log[u].path => w <= u

\* Device d need not be told of w.
Skippable(d, w) ==
  /\ fresh[d]
  /\ \/ ~IsHead(w)
     \/ log[w].deleted /\ \A g \in got[d] : log[g].path # log[w].path

\* Nothing device d has to hear lies between its point and v.
NothingBefore(d, v) == \A w \in rows : seen[d] < w /\ w < v => Skippable(d, w)

Init ==
  /\ log = [u \in {} |-> 0] /\ rows = {}
  /\ seen = [d \in Device |-> 0]
  /\ got = [d \in Device |-> {}]
  /\ fresh = [d \in Device |-> FALSE]

Commit(u, r) ==
  /\ \A w \in DOMAIN log : w < u
  /\ log'  = [w \in DOMAIN log \cup {u} |-> IF w = u THEN r ELSE log[w]]
  /\ rows' = rows \cup {u}
  /\ UNCHANGED <<seen, got, fresh>>

Purge ==
  /\ rows' = {u \in rows : IsHead(u)}
  /\ UNCHANGED <<log, seen, got, fresh>>

\* Device d comes back to a point it has passed.
Resume(d, v) ==
  /\ seen'  = [seen EXCEPT ![d] = v]
  /\ got'   = [got EXCEPT ![d] = {u \in @ : u <= v}]
  /\ fresh' = [fresh EXCEPT ![d] = FALSE]
  /\ UNCHANGED <<log, rows>>

\* Device d starts over with nothing.
StartOver(d) ==
  /\ seen'  = [seen EXCEPT ![d] = 0]
  /\ got'   = [got EXCEPT ![d] = {}]
  /\ fresh' = [fresh EXCEPT ![d] = TRUE]
  /\ UNCHANGED <<log, rows>>

Notice(d, u) ==
  /\ seen[d] < u
  /\ NothingBefore(d, u)
  /\ seen' = [seen EXCEPT ![d] = u]
  /\ got'  = [got EXCEPT ![d] = @ \cup {u}]
  /\ UNCHANGED <<log, rows, fresh>>

\* "ready": device d has all it needs up to v.
Ready(d, v) ==
  /\ seen[d] <= v
  /\ NothingBefore(d, v + 1)
  /\ seen'  = [seen EXCEPT ![d] = v]
  /\ fresh' = [fresh EXCEPT ![d] = FALSE]
  /\ UNCHANGED <<log, rows, got>>

\* Devices leave; what they have been told stays with them.
Leave(D) ==
  /\ fresh' = [d \in Device |-> fresh[d] /\ d \notin D]
  /\ UNCHANGED <<log, rows, seen, got>>

Next ==
  \/ \E u \in Uid, r \in [path : Path, deleted : BOOLEAN] : Commit(u, r)
  \/ Purge
  \/ \E d \in Device :
       \/ \E v \in 0..seen[d] : Resume(d, v)
       \/ StartOver(d)
       \/ \E u \in DOMAIN log : Notice(d, u)
       \/ \E v \in DOMAIN log \cup {seen[d]} : Ready(d, v)
  \/ \E D \in SUBSET Device : Leave(D)

Spec == Init /\ [][Next]_vars
=============================================================================
