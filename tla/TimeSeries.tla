------------------------------ MODULE TimeSeries ------------------------------
(***************************************************************************)
(* The searches of include/safe-shm/time_series.hpp, over a cyclic buffer     *)
(* that is written while it is searched.                                     *)
(*                                                                         *)
(* An element is known by its number, as in CyclicBuffer; key[e] is its key.  *)
(* A search reads elements one by one with try_get(reverse_index).  Each      *)
(* try_get is two steps: it loads total_writes and turns the index into the  *)
(* element it wants, and then it returns what the slot of that element holds, *)
(* or nullopt.  CyclicBuffer shows that the slot's sequence makes the second  *)
(* step atomic (ReadsElement) and that nullopt is returned only if the writer *)
(* has come round to the slot (FailsOnlyIfLapped).                           *)
(*                                                                         *)
(* Searches change nothing that another reader sees, so one reader and the    *)
(* writer are the whole system.                                              *)
(***************************************************************************)
EXTENDS Integers, Sequences

CONSTANTS N,           \* capacity
          MaxInserts,  \* bound on the inserts
          MaxKey,      \* numeric_limits<key_type>::max()
          Distances,   \* the max_distance values callers pass
          Tolerance,   \* the tolerance callers give a ProximityValidator
          MIN_NS, MAX_NS

ASSUME TimeSeriesAssumption ==
  /\ N \in Nat \ {0}
  /\ MaxInserts \in Nat
  /\ MaxKey \in Nat
  /\ Distances \subseteq Nat
  /\ Tolerance \in Nat
  /\ MIN_NS \in Nat /\ MAX_NS \in Nat

VARIABLES
  key,     \* element -> its key
  total,   \* total_writes
  w,       \* insert(): "idle", "busy" (the slot's sequence is odd) or
           \* "written" (even again, total_writes not stored yet)
  pc,      \* the reader: "idle", "done" (a call has returned), or the
           \* try_get its call is at
  op,      \* the call: "closest", "safe" (find_closest of a SanitizedKey),
           \* "pair", "fresh" or "latest"
  target,  \* its key argument
  maxd,    \* its max_distance, or NoDistance
  avail,   \* the local avail
  loc,     \* its other locals
  want,    \* the element the try_get under way wants, 0 before it knows
  result,  \* what the call returned: elements, and alpha for a pair
  seen,    \* the element the caller's last get_latest() returned
  t0,      \* history: total when the call began
  quiet    \* history: the writer has made no step since the call began

wvars == <<key, total, w>>
args  == <<op, target, maxd>>
hist  == <<seen, t0>>
vars  == <<wvars, pc, args, avail, loc, want, result, hist, quiet>>

-----------------------------------------------------------------------------
Keys == 0 .. MaxKey
SK   == INSTANCE SanitizedKey

NoDistance == -1
None       == 0        \* nullopt; elements are numbered from 1

\* available(): min(total_writes, N).
Available == IF total < N THEN total ELSE N

\* The last element whose sequence is even again, and the last one begun.
Finished == IF w = "written" THEN total + 1 ELSE total
Begun    == IF w = "idle" THEN total ELSE total + 1

\* The newest finished element in the slot of element k.
Content(k) == Finished - ((Finished - k) % N)

\* What try_get may return, once it wants element k: nullopt only if the writer
\* has come round to the slot.
TryGet(k) ==
  {e \in {Content(k)} : w # "busy" \/ (total + 1 - k) % N # 0}
    \cup {e \in {None} : Begun >= k + N}

\* key_diff(extractor_(elem), target).
Diff(e) == IF key[e] > target THEN key[e] - target ELSE target - key[e]

\* best_diff of the linear search: the maximum until there is a best.
DiffOrMax(e) == IF e = None THEN MaxKey ELSE Diff(e)

NoLocals == [lo |-> 0, hi |-> 0, i |-> 0, maxd |-> NoDistance,
             best |-> None, newer |-> None, older |-> None]

Nothing == [elems |-> <<>>, alpha |-> <<0, 1>>]
Just(e) == [elems |-> <<e>>, alpha |-> <<0, 1>>]

\* InterpPair{before, after, num / den}; the subtraction of keys wraps.
Pair(before, after, num, den) ==
  [elems |-> <<before, after>>,
   alpha |-> <<num % (MaxKey + 1), den % (MaxKey + 1)>>]

\* Elements are inserted with increasing keys.
Init ==
  /\ key \in [1 .. MaxInserts -> Keys]
  /\ \A e, f \in 1 .. MaxInserts : e < f => key[e] < key[f]
  /\ total = 0 /\ w = "idle"
  /\ pc = "idle" /\ op = "closest" /\ target = 0 /\ maxd = NoDistance
  /\ avail = 0 /\ loc = NoLocals /\ want = 0 /\ result = Nothing
  /\ seen = None /\ t0 = 0 /\ quiet = TRUE

-----------------------------------------------------------------------------
(* The writer: insert() of the cyclic buffer.                               *)

WriterMoves(from, to) ==
  /\ w = from /\ w' = to
  /\ quiet' = FALSE
  /\ UNCHANGED <<key, pc, args, avail, loc, want, result, hist>>

InsertOdd  == total < MaxInserts /\ WriterMoves("idle", "busy") /\ UNCHANGED total
InsertEven == WriterMoves("busy", "written") /\ UNCHANGED total
Publish    == WriterMoves("written", "idle") /\ total' = total + 1

-----------------------------------------------------------------------------
(* Calls and returns.                                                       *)

At(p, l) == /\ pc' = p /\ loc' = l /\ want' = 0
            /\ UNCHANGED <<wvars, args, avail, result, hist, quiet>>

Return(res) ==
  /\ pc' = "done" /\ result' = res
  /\ loc' = NoLocals /\ want' = 0 /\ avail' = 0
  /\ UNCHANGED <<wvars, args, hist, quiet>>

\* The call of o, with its load of total_writes in available(); it returns
\* nullopt for fewer than `least' elements and goes on at p with locals l
\* otherwise.
Call(o, t, d, least, p, l) ==
  /\ pc = "idle"
  /\ op' = o /\ target' = t /\ maxd' = d
  /\ t0' = total /\ quiet' = (w = "idle")
  /\ seen' = IF o = "safe" THEN seen ELSE None
  /\ \/ /\ Available < least
        /\ pc' = "done" /\ avail' = 0 /\ loc' = NoLocals
     \/ /\ Available >= least
        /\ pc' = p /\ avail' = Available /\ loc' = l
  /\ UNCHANGED <<wvars, want, result>>

\* while (lo < hi)
LoopHead(l) == IF l.lo < l.hi THEN "mid" ELSE "best"

Closest(o, t, d) ==
  LET l == [NoLocals EXCEPT !.hi = Available - 1, !.maxd = d]
  IN  Call(o, t, d, 1, LoopHead(l), l)

FindClosest == \E t \in Keys, d \in Distances \cup {NoDistance} :
                 Closest("closest", t, d)

FindInterpolationPair ==
  \E t \in Keys :
    Call("pair", t, NoDistance, 2, "newest",
         [NoLocals EXCEPT !.hi = Available - 1])

GetLatestIfFresh == \E t \in Keys : Call("fresh", t, NoDistance, 1, "fresh", NoLocals)

\* get_latest(): the caller takes the newest key as the reference for keys.
GetLatest == Call("latest", 0, NoDistance, 1, "latest", NoLocals)

\* The overload for a SanitizedKey, that the caller has validated.
FindClosestSanitized ==
  \E raw \in Keys :
    /\ seen # None
    /\ SK!Sanitize(raw, SK!AllOf({SK!MonotonicNsValidator,
                          SK!ProximityValidator(key[seen], Tolerance)})) # SK!NoKey
    /\ Closest("safe", raw, NoDistance)

\* The caller has used the result.
Finish ==
  /\ pc = "done" /\ pc' = "idle"
  /\ op' = "closest" /\ target' = 0 /\ maxd' = NoDistance /\ result' = Nothing
  /\ seen' = IF op # "latest" \/ result = Nothing THEN None ELSE result.elems[1]
  /\ t0' = 0 /\ quiet' = TRUE
  /\ UNCHANGED <<wvars, avail, loc, want>>

-----------------------------------------------------------------------------
(* try_get.                                                                 *)

\* mid = lo + (hi - lo) / 2
Mid == loc.lo + ((loc.hi - loc.lo) \div 2)

\* The reverse_index of the try_get the call is at.
Index ==
  CASE pc \in {"mid", "pairmid"}              -> Mid
    [] pc \in {"best", "after"}               -> loc.lo
    [] pc = "prev"                            -> loc.lo - 1
    [] pc = "next"                            -> loc.lo + 1
    [] pc = "before"                          -> loc.hi
    [] pc \in {"scan", "pairscan"}            -> loc.i
    [] pc = "oldest"                          -> avail - 1
    [] pc \in {"newest", "fresh", "latest"}   -> 0

\* Mutant: one element too far back.
LocateOlder ==
  /\ pc \notin {"idle", "done"} /\ want = 0
  /\ want' = total - Index - 1
  /\ UNCHANGED <<wvars, pc, args, avail, loc, result, hist, quiet>>

\* total_writes is loaded again: the element the index means now.  (The index
\* is below avail and total_writes only grows, so it is still available.)
Locate ==
  /\ pc \notin {"idle", "done"} /\ want = 0
  /\ want' = total - Index
  /\ UNCHANGED <<wvars, pc, args, avail, loc, result, hist, quiet>>

\* The try_get at p returns e.
Got(p, e) == pc = p /\ want # 0 /\ e \in TryGet(want)

-----------------------------------------------------------------------------
(* find_closest().                                                          *)

\* The linear search starts; its max_distance parameter is d.
Linear(p, d) == At(p, [NoLocals EXCEPT !.maxd = d])

\* Mutant: no special case for mid == 0, hi becomes SIZE_MAX (any value beyond
\* the capacity will do).
SizeMod == 2 * N
NarrowWraps(e) ==
  /\ Got("mid", e)
  /\ \/ e = None /\ Linear("scan", loc.maxd)
     \/ /\ e # None /\ key[e] > target
        /\ LET l == [loc EXCEPT !.lo = Mid + 1] IN At(LoopHead(l), l)
     \/ /\ e # None /\ key[e] < target
        /\ LET l == [loc EXCEPT !.hi = (Mid - 1) % SizeMod] IN At(LoopHead(l), l)
     \/ e # None /\ key[e] = target /\ Return(Just(e))

\* The body of the binary search.
Narrow(e) ==
  /\ Got("mid", e)
  /\ \/ e = None /\ Linear("scan", loc.maxd)
     \/ /\ e # None /\ key[e] > target
        /\ LET l == [loc EXCEPT !.lo = Mid + 1] IN At(LoopHead(l), l)
     \/ /\ e # None /\ key[e] < target /\ Mid # 0
        /\ LET l == [loc EXCEPT !.hi = Mid - 1] IN At(LoopHead(l), l)
     \/ e # None /\ key[e] < target /\ Mid = 0 /\ At("best", loc)
     \/ e # None /\ key[e] = target /\ Return(Just(e))

\* The filter at the end: nothing that is farther than max_distance.
Filtered(e, d) ==
  IF e = None \/ (d # NoDistance /\ Diff(e) > d) THEN Nothing ELSE Just(e)

\* The neighbours are looked at if there are any, the newer one first.
AfterBest(l) ==
  \/ l.lo > 0 /\ At("prev", l)
  \/ l.lo = 0 /\ l.lo + 1 < avail /\ At("next", l)
  \/ l.lo = 0 /\ l.lo + 1 >= avail /\ Return(Filtered(l.best, l.maxd))

AfterPrev(l) ==
  \/ l.lo + 1 < avail /\ At("next", l)
  \/ l.lo + 1 >= avail /\ Return(Filtered(l.best, l.maxd))

\* try_get(lo); the linear search it falls back to gets no max_distance.
Best(e) ==
  /\ Got("best", e)
  /\ \/ e = None /\ Linear("scan", NoDistance)
     \/ e # None /\ AfterBest([loc EXCEPT !.best = e])

Better(e) == IF e # None /\ Diff(e) < Diff(loc.best) THEN e ELSE loc.best

Prev(e) == Got("prev", e) /\ AfterPrev([loc EXCEPT !.best = Better(e)])

\* Mutant: the older neighbour is not looked at.
NextSkipped(e) == Got("next", e) /\ Return(Filtered(loc.best, loc.maxd))

NextElem(e) == Got("next", e) /\ Return(Filtered(Better(e), loc.maxd))

\* Mutant: an element that cannot be read is tried again, for ever.
ScanStuck(e) ==
  LET b == IF e # None /\ Diff(e) < DiffOrMax(loc.best) THEN e ELSE loc.best
  IN  /\ Got("scan", e)
      /\ \/ e = None /\ At("scan", loc)
         \/ /\ e # None /\ loc.i + 1 < avail
            /\ At("scan", [loc EXCEPT !.i = @ + 1, !.best = b])
         \/ e # None /\ loc.i + 1 >= avail /\ Return(Filtered(b, loc.maxd))

\* find_closest_linear(): elements that cannot be read are skipped.
Scan(e) ==
  LET b == IF e # None /\ Diff(e) < DiffOrMax(loc.best) THEN e ELSE loc.best
  IN  /\ Got("scan", e)
      /\ \/ loc.i + 1 < avail /\ At("scan", [loc EXCEPT !.i = @ + 1, !.best = b])
         \/ loc.i + 1 >= avail /\ Return(Filtered(b, loc.maxd))

-----------------------------------------------------------------------------
(* find_interpolation_pair().                                               *)

Newest(e) == Got("newest", e) /\ At("oldest", [loc EXCEPT !.newer = e])

\* while (lo + 1 < hi)
PairHead(l) == IF l.lo + 1 < l.hi THEN "pairmid" ELSE "after"

\* Both ends are there: the checks of the range and of its bounds.
Oldest(e) ==
  /\ Got("oldest", e)
  /\ \/ (loc.newer = None \/ e = None) /\ Return(Nothing)
     \/ /\ loc.newer # None /\ e # None
        /\ target > key[loc.newer] \/ target < key[e]
        /\ Return(Nothing)
     \/ /\ loc.newer # None /\ e # None
        /\ target <= key[loc.newer] /\ target >= key[e]
        /\ \/ /\ target = key[loc.newer]
              /\ Return(Pair(loc.newer, loc.newer, 0, 1))
           \/ /\ target # key[loc.newer] /\ target = key[e]
              /\ Return(Pair(e, e, 0, 1))
           \/ /\ target # key[loc.newer] /\ target # key[e]
              /\ LET l == [loc EXCEPT !.newer = None] IN At(PairHead(l), l)

\* Mutant: lo moves past mid, as in find_closest().
PairNarrowPast(e) ==
  /\ Got("pairmid", e)
  /\ \/ e = None /\ Linear("pairscan", NoDistance)
     \/ /\ e # None /\ key[e] > target
        /\ LET l == [loc EXCEPT !.lo = Mid + 1] IN At(PairHead(l), l)
     \/ /\ e # None /\ key[e] <= target
        /\ LET l == [loc EXCEPT !.hi = Mid] IN At(PairHead(l), l)

\* The body of the binary search: key(hi) <= target < key(lo).
PairNarrow(e) ==
  /\ Got("pairmid", e)
  /\ \/ e = None /\ Linear("pairscan", NoDistance)
     \/ /\ e # None /\ key[e] > target
        /\ LET l == [loc EXCEPT !.lo = Mid] IN At(PairHead(l), l)
     \/ /\ e # None /\ key[e] <= target
        /\ LET l == [loc EXCEPT !.hi = Mid] IN At(PairHead(l), l)

\* The elements at lo and hi are read again.
After(e) == Got("after", e) /\ At("before", [loc EXCEPT !.newer = e])

\* The pair, and alpha from its keys.
Interpolated(before, after) ==
  IF key[before] = key[after] THEN Pair(before, after, 0, 1)
  ELSE Pair(before, after, target - key[before], key[after] - key[before])

Before(e) ==
  /\ Got("before", e)
  /\ \/ (loc.newer = None \/ e = None) /\ Return(Nothing)
     \/ /\ loc.newer # None /\ e # None
        /\ Return(Interpolated(e, loc.newer))

\* find_interpolation_pair_linear(): the closest elements on either side.
PairScan(e) ==
  LET o == IF e # None /\ key[e] <= target /\ Diff(e) < DiffOrMax(loc.older)
           THEN e ELSE loc.older
      n == IF e # None /\ key[e] >= target /\ Diff(e) < DiffOrMax(loc.newer)
           THEN e ELSE loc.newer
  IN  /\ Got("pairscan", e)
      /\ \/ /\ loc.i + 1 < avail
            /\ At("pairscan", [loc EXCEPT !.i = @ + 1, !.older = o, !.newer = n])
         \/ /\ loc.i + 1 >= avail
            /\ Return(IF o = None \/ n = None THEN Nothing ELSE Interpolated(o, n))

-----------------------------------------------------------------------------
(* get_latest_if_fresh() and get_latest().                                  *)

Fresh(e) ==
  /\ Got("fresh", e)
  /\ Return(IF e # None /\ key[e] >= target THEN Just(e) ELSE Nothing)

\* read_slot() spins until it has the element.
Latest(e) == Got("latest", e) /\ e # None /\ Return(Just(e))

-----------------------------------------------------------------------------
WriterStep == InsertOdd \/ InsertEven \/ Publish

CallStep ==
  \/ Locate
  \/ \E e \in 0 .. MaxInserts :
       \/ Narrow(e) \/ Best(e) \/ Prev(e) \/ NextElem(e) \/ Scan(e)
       \/ Newest(e) \/ Oldest(e) \/ PairNarrow(e) \/ After(e) \/ Before(e)
       \/ PairScan(e) \/ Fresh(e) \/ Latest(e)

Caller ==
  \/ FindClosest \/ FindClosestSanitized \/ FindInterpolationPair
  \/ GetLatestIfFresh \/ GetLatest \/ Finish

Next == WriterStep \/ CallStep \/ Caller

Spec == Init /\ [][Next]_vars

\* The reader keeps running inside its calls; the writer may stop anywhere.
FairSpec == Spec /\ WF_vars(CallStep)

-----------------------------------------------------------------------------
(* Properties.                                                              *)

Points == {"mid", "best", "prev", "next", "scan", "newest", "oldest",
           "pairmid", "after", "before", "pairscan", "fresh", "latest"}

\* Every index the searches compute is that of an element available when the
\* call began: lo - 1, mid - 1 and avail - 1 never wrap, lo + 1 and mid + 1
\* never run past the end.
IndexInRange ==
  /\ pc \in Points => Index \in 0 .. avail - 1 /\ avail <= total
  /\ want # 0 => want \in 1 .. total

Elems == {result.elems[j] : j \in 1 .. Len(result.elems)}

\* Whatever the writer does meanwhile, what a search returns was available when
\* the call began or is newer, and is at most the element being inserted; the
\* latest element is never older than the latest when the call began.
Recent ==
  pc = "done" => \A e \in Elems :
    /\ e >= t0 - N + 1 /\ e > 0 /\ e <= total + 1
    /\ op \in {"fresh", "latest"} => e >= t0

Window == (total - Available) + 1 .. total

\* "Find the element whose key is closest to the target ... returns nullopt when
\* the best match is farther than max_distance": exact when no insert() ran
\* during the call.
ClosestExact ==
  pc = "done" /\ quiet /\ op \in {"closest", "safe"} =>
    LET near == {e \in Window :
                   /\ \A f \in Window : Diff(e) <= Diff(f)
                   /\ maxd # NoDistance => Diff(e) <= maxd}
    IN  IF near = {} THEN result = Nothing ELSE \E e \in near : result = Just(e)

\* "Find the two adjacent elements bracketing the target key. Returns nullopt if
\* fewer than 2 elements or target is out of range": exact when no insert() ran
\* during the call, with alpha between 0 and 1.
PairExact ==
  pc = "done" /\ quiet /\ op = "pair" =>
    IF Available < 2 \/ target > key[total] \/ target < key[total - Available + 1]
    THEN result = Nothing
    ELSE \E b \in Window :
           \/ key[b] = target /\ result.alpha[1] = 0
              /\ result.elems \in {<<b, b>>, <<b, b + 1>>}
           \/ /\ key[b] < target /\ b + 1 \in Window /\ target < key[b + 1]
              /\ result = Pair(b, b + 1, target - key[b], key[b + 1] - key[b])

\* A key that a ProximityValidator has accepted against the latest element finds
\* an element within the tolerance, if that latest element has not been overwritten
\* since and no insert() runs during the search: inserts may make the search miss
\* the element although it is still there.
SanitizedKeyIsNear ==
  pc = "done" /\ quiet /\ op = "safe" /\ seen \in Window =>
    \E e \in Window : result = Just(e) /\ Diff(e) <= Tolerance

\* Every search returns, even if the writer stops in the middle of an insert or
\* never stops inserting.  (get_latest() spins on an insert under way.)
SearchReturns == pc \in Points \ {"latest"} ~> pc = "done"

\* "If max_distance is provided, returns nullopt when the best match is farther
\* than max_distance."
WithinDistance ==
  pc = "done" /\ op = "closest" /\ maxd # NoDistance =>
    \A e \in Elems : Diff(e) <= maxd
=============================================================================
