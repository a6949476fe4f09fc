--------------------------- MODULE TwoLevelCache ---------------------------
(***************************************************************************)
(* The two-level cache (cache/cache.go): each process has its own L1, a    *)
(* MemoryCache, over one L2, a Redis server they share.  One key: no       *)
(* operation but Clear relates two.                                        *)
(*                                                                         *)
(* An operation takes the locks of L1 and talks to L2 one after the other, *)
(* and other operations come in between.  A lifetime is what is left of    *)
(* it: 0 is expired, Forever never expires.                                *)
(***************************************************************************)
EXTENDS Integers

CONSTANTS
  Processes,   \* each has an L1
  Users,       \* goroutines that use the cache
  Contents,    \* values
  L1TTL,       \* TwoLevelCacheConfig.L1TTL
  TTLs         \* lifetimes given to Set; 0 is "no expiry"

ASSUME CacheAssumption == L1TTL \in Nat \ {0} /\ TTLs \subseteq Nat

VARIABLES
  l1,     \* process -> its cacheItem or Absent
  l2,     \* Redis: its item or Absent
  home,   \* goroutine -> its process
  user    \* goroutine -> the operation it is in

cacheVars == <<l1, l2, home, user>>

Absent == [content |-> "none"]
Forever == -1
NoCall == [at |-> "idle"]

Item(v, ttl) == [content |-> v, left |-> IF ttl = 0 THEN Forever ELSE ttl]
Live(item) == item # Absent /\ item.left # 0

CacheInit ==
  /\ l1 = [p \in Processes |-> Absent]
  /\ l2 = Absent
  /\ home \in [Users -> Processes]
  /\ user = [u \in Users |-> NoCall]

Here(u) == home[u]
Goto(u, call) == user' = [user EXCEPT ![u] = call] /\ UNCHANGED home

----------------------------------------------------------------------------
(* Get: L1, then L2, then L1 again.                                        *)

(* The item is copied under the read lock.  A live one is the answer; an   *)
(* expired one is deleted in another step, whatever is there by then.      *)
GetL1_Sliding(u) ==
  /\ user[u] = NoCall /\ Live(l1[Here(u)])
  /\ l1' = [l1 EXCEPT ![Here(u)] = Item(@.content, L1TTL)]
  /\ Goto(u, NoCall)
  /\ UNCHANGED l2

GetL1(u) ==
  /\ user[u] = NoCall
  /\ Goto(u, IF Live(l1[Here(u)]) THEN NoCall
             ELSE IF l1[Here(u)] = Absent THEN [at |-> "fetch"] ELSE [at |-> "expired"])
  /\ UNCHANGED <<l1, l2>>

DropExpired(u) ==
  /\ user[u].at = "expired"
  /\ l1' = [l1 EXCEPT ![Here(u)] = Absent]
  /\ Goto(u, [at |-> "fetch"])
  /\ UNCHANGED l2

(* A miss, or a Redis that does not answer, ends the call.                 *)
GetL2(u) ==
  /\ user[u].at = "fetch"
  /\ \/ Live(l2) /\ Goto(u, [at |-> "backfill", content |-> l2.content])
     \/ Goto(u, NoCall)
  /\ UNCHANGED <<l1, l2>>

(* The value gets the whole lifetime of L1, whatever is left of it in L2.  *)
Backfill(u) ==
  /\ user[u].at = "backfill"
  /\ l1' = [l1 EXCEPT ![Here(u)] = Item(user[u].content, L1TTL)]
  /\ Goto(u, NoCall)
  /\ UNCHANGED l2

----------------------------------------------------------------------------
(* Set and Delete: L1, then L2, which may fail.                            *)

Shorter(ttl) == IF ttl < L1TTL THEN ttl ELSE L1TTL

SetL1(u, v, ttl) ==
  /\ user[u] = NoCall
  /\ l1' = [l1 EXCEPT ![Here(u)] = Item(v, Shorter(ttl))]
  /\ Goto(u, [at |-> "set", item |-> Item(v, ttl)])
  /\ UNCHANGED l2

SetL2(u) ==
  /\ user[u].at = "set"
  /\ l2' = user[u].item \/ UNCHANGED l2
  /\ Goto(u, NoCall)
  /\ UNCHANGED l1

DeleteL1(u) ==
  /\ user[u] = NoCall
  /\ l1' = [l1 EXCEPT ![Here(u)] = Absent]
  /\ Goto(u, [at |-> "delete"])
  /\ UNCHANGED l2

DeleteL2(u) ==
  /\ user[u].at = "delete"
  /\ l2' = Absent \/ UNCHANGED l2
  /\ Goto(u, NoCall)
  /\ UNCHANGED l1

(* Clear: L1 at once, then the keys that a scan of L2 finds.               *)
ClearL1(u) ==
  /\ user[u] = NoCall
  /\ l1' = [l1 EXCEPT ![Here(u)] = Absent]
  /\ Goto(u, [at |-> "scan"])
  /\ UNCHANGED l2

ScanL2(u) ==
  /\ user[u].at = "scan"
  /\ Goto(u, IF l2 = Absent THEN NoCall ELSE [at |-> "delete"])
  /\ UNCHANGED <<l1, l2>>

----------------------------------------------------------------------------
Older(item) ==
  IF item = Absent \/ item.left \in {0, Forever} THEN item ELSE [item EXCEPT !.left = @ - 1]

Elapse ==
  /\ l1' = [p \in Processes |-> Older(l1[p])]
  /\ l2' = IF Live(Older(l2)) THEN Older(l2) ELSE Absent
  /\ UNCHANGED <<home, user>>

(* cleanup, once a minute in each process.                                 *)
cleanupL1(p) ==
  /\ l1[p] # Absent /\ ~Live(l1[p])
  /\ l1' = [l1 EXCEPT ![p] = Absent]
  /\ UNCHANGED <<l2, home, user>>

CacheStep(u) ==
  \/ DropExpired(u)
  \/ GetL2(u)
  \/ Backfill(u)
  \/ SetL2(u)
  \/ DeleteL2(u)
  \/ ScanL2(u)

CacheNext ==
  \/ \E u \in Users :
       \/ GetL1(u)
       \/ CacheStep(u)
       \/ \E v \in Contents, ttl \in TTLs : SetL1(u, v, ttl)
       \/ DeleteL1(u)
       \/ ClearL1(u)
  \/ Elapse
  \/ \E p \in Processes : cleanupL1(p)

(* Goroutines go on and time passes.                                       *)
CacheFairness == WF_cacheVars(Elapse) /\ \A u \in Users : WF_cacheVars(CacheStep(u))

----------------------------------------------------------------------------
Stale(p, v) == Live(l1[p]) /\ l1[p].content = v /\ ~(Live(l2) /\ l2.content = v)

(* What an L1 answers after it was overwritten or deleted by another       *)
(* process, expired in L2, or was put back by a late backfill is forgotten *)
(* once nobody writes any more (cache.go:351), however often it is read.   *)
(* Only what a Set without expiry wrote stays in L1 for ever (cache.go:360).*)
StaleDiesOut ==
  <>[](\A u \in Users : user[u].at # "set") =>
    \A p \in Processes, v \in Contents : []<>(Stale(p, v) => l1[p].left = Forever)
=============================================================================
