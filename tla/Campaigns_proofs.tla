------------------------- MODULE Campaigns_proofs --------------------------
(***************************************************************************)
(* Proofs about the dispatch of a campaign, for any audience, page size,   *)
(* runs and faults, and about the shares of its variants, for any variants *)
(* and editors.  That a set of users has an order and that a sum can be    *)
(* taken in any order is proved here from a smallest counterexample:       *)
(* nothing in the library speaks of the folds.                             *)
(***************************************************************************)
EXTENDS Campaigns, CampaignVariants, FiniteSetTheorems, SequenceTheorems, TLAPS

---------------------------------------------------------------------------
(* The order of the pages.                                                 *)

\* A rank is a place of the order.
LEMMA RankType ==
  ASSUME NEW S, S \subseteq Nat, IsFiniteSet(S), NEW u \in S
  PROVE  Cardinality(S) \in Nat /\ Rank(u, S) \in 1 .. Cardinality(S)
<1> DEFINE upto == {v \in S : v <= u}
<1>1. upto \in SUBSET S /\ u \in upto
  OBVIOUS
<1>2. IsFiniteSet(upto) /\ Cardinality(upto) <= Cardinality(S)
  BY <1>1, FS_Subset
<1>3. Cardinality(upto) \in Nat /\ Cardinality(upto) # 0 /\ Cardinality(S) \in Nat
  BY <1>1, <1>2, FS_CardinalityType, FS_EmptySet
<1> QED BY <1>2, <1>3 DEF Rank

\* A greater user has a greater rank.
LEMMA RankOrder ==
  ASSUME NEW S, S \subseteq Nat, IsFiniteSet(S), NEW u \in S, NEW v \in S, u < v
  PROVE  Rank(u, S) < Rank(v, S)
<1> DEFINE Upto(x) == {y \in S : y <= x}
<1>1. Upto(u) \in SUBSET Upto(v)
  <2>1. ASSUME NEW y \in S, y <= u PROVE y <= v
    <3>1. u \in Nat /\ v \in Nat /\ y \in Nat
      OBVIOUS
    <3> QED BY <2>1, <3>1
  <2> QED BY <2>1
<1>2. v \in Upto(v) /\ v \notin Upto(u)
  OBVIOUS
<1>3. IsFiniteSet(Upto(v))
  <2>1. Upto(v) \in SUBSET S
    OBVIOUS
  <2> QED BY <2>1, FS_Subset
<1>4. /\ Cardinality(Upto(u)) <= Cardinality(Upto(v))
      /\ Cardinality(Upto(u)) # Cardinality(Upto(v))
  BY <1>1, <1>2, <1>3, FS_Subset
<1>5. Rank(u, S) \in Int /\ Rank(v, S) \in Int
  <2>1. /\ Cardinality(S) \in Nat
        /\ Rank(u, S) \in 1 .. Cardinality(S) /\ Rank(v, S) \in 1 .. Cardinality(S)
    BY RankType
  <2> QED BY <2>1
<1>6. Rank(u, S) = Cardinality(Upto(u)) /\ Rank(v, S) = Cardinality(Upto(v))
  BY DEF Rank
<1> HIDE DEF Upto
<1> QED BY <1>4, <1>5, <1>6

\* No two users have one rank.
LEMMA RankOne ==
  ASSUME NEW S, S \subseteq Nat, IsFiniteSet(S), NEW u \in S, NEW v \in S, Rank(u, S) = Rank(v, S)
  PROVE  u = v
<1>1. Rank(u, S) \in 1 .. Cardinality(S) /\ Cardinality(S) \in Nat
  BY RankType
<1>2. Rank(u, S) \in Int /\ ~(Rank(u, S) < Rank(v, S)) /\ ~(Rank(v, S) < Rank(u, S))
  BY <1>1
<1>3. ~(u < v)
  BY <1>2, RankOrder
<1>4. ~(v < u)
  BY <1>2, RankOrder
<1>5. u \in Nat /\ v \in Nat
  OBVIOUS
<1> QED BY <1>3, <1>4, <1>5

\* Every place of the order is taken.
LEMMA RankOnto ==
  ASSUME NEW S, S \subseteq Nat, IsFiniteSet(S), NEW i \in 1 .. Cardinality(S)
  PROVE  \E u \in S : Rank(u, S) = i
<1> DEFINE n == Cardinality(S)
           rank == [u \in S |-> Rank(u, S)]
<1>1. rank \in Injection(S, 1 .. n)
  <2>1. rank \in [S -> 1 .. n]
    BY RankType
  <2>2. \A u, v \in S : rank[u] = rank[v] => u = v
    BY RankOne
  <2> HIDE DEF rank
  <2> QED BY <2>1, <2>2 DEF Injection, IsInjective
<1>2. IsFiniteSet(1 .. n) /\ Cardinality(1 .. n) = Cardinality(S)
  <2>1. n \in Nat
    BY FS_CardinalityType
  <2> QED BY <2>1, FS_Interval
<1>3. rank \in Surjection(S, 1 .. n)
  <2> HIDE DEF rank
  <2> QED BY <1>1, <1>2, FS_Injection
<1>4. \E u \in S : rank[u] = i
  <2> HIDE DEF rank
  <2> QED BY <1>3 DEF Surjection
<1> QED BY <1>4

\* The users of a page order are the users of the set, each at its rank.
LEMMA Ordered ==
  ASSUME NEW S, S \subseteq Nat, IsFiniteSet(S)
  PROVE  /\ Cardinality(S) \in Nat
         /\ ById(S) \in [1 .. Cardinality(S) -> S]
         /\ \A u \in S : Rank(u, S) \in 1 .. Cardinality(S) /\ ById(S)[Rank(u, S)] = u
<1>1. Cardinality(S) \in Nat
  BY FS_CardinalityType
<1>2. ASSUME NEW i \in 1 .. Cardinality(S) PROVE ById(S)[i] \in S /\ Rank(ById(S)[i], S) = i
  <2>1. ById(S)[i] = CHOOSE u \in S : Rank(u, S) = i
    BY DEF ById
  <2> QED BY <2>1, RankOnto
<1>3. ById(S) \in [1 .. Cardinality(S) -> S]
  BY <1>2 DEF ById
<1>4. ASSUME NEW u \in S PROVE Rank(u, S) \in 1 .. Cardinality(S) /\ ById(S)[Rank(u, S)] = u
  <2>1. Rank(u, S) \in 1 .. Cardinality(S)
    BY RankType
  <2> QED BY <1>2, <2>1, RankOne
<1> QED BY <1>1, <1>3, <1>4

\* Who enters moves others up, and who leaves moves them down by one place.
LEMMA RankMoves ==
  ASSUME NEW S, S \subseteq Nat, IsFiniteSet(S), NEW x \in Nat, NEW u \in S
  PROVE  /\ Rank(u, S) <= Rank(u, S \cup {x})
         /\ u # x => Rank(u, S) <= Rank(u, S \ {x}) + 1
<1>1. Rank(u, S) <= Rank(u, S \cup {x})
  <2> DEFINE more == {v \in S \cup {x} : v <= u}
  <2>1. {v \in S : v <= u} \in SUBSET more /\ more \in SUBSET (S \cup {x})
    OBVIOUS
  <2>2. IsFiniteSet(more)
    BY <2>1, FS_AddElement, FS_Subset
  <2> QED BY <2>1, <2>2, FS_Subset DEF Rank
<1>2. ASSUME u # x PROVE Rank(u, S) <= Rank(u, S \ {x}) + 1
  <2> DEFINE all == {v \in S : v <= u}
             less == {v \in S \ {x} : v <= u}
  <2>1. less = all \ {x} /\ all \in SUBSET S
    OBVIOUS
  <2>2. IsFiniteSet(all) /\ Cardinality(all) \in Nat
    BY <2>1, FS_Subset, FS_CardinalityType
  <2>3. Cardinality(all \ {x}) = IF x \in all THEN Cardinality(all) - 1 ELSE Cardinality(all)
    BY <2>2, FS_RemoveElement
  <2>4. Rank(u, S) = Cardinality(all) /\ Rank(u, S \ {x}) = Cardinality(all \ {x})
    BY <2>1 DEF Rank
  <2> HIDE DEF all, less
  <2> QED BY <2>2, <2>3, <2>4
<1> QED BY <1>1, <1>2

---------------------------------------------------------------------------
(* Type correctness.                                                       *)

\* Where a run may be.
Stages == {"idle", "paging", "choosing", "claimed", "recorded", "delivered",
           "marked", "counted", "refused", "noted", "finished"}

LEMMA CampaignTypesInit == CampaignInit => CampaignTypeOK
<1> SUFFICES ASSUME CampaignInit PROVE CampaignTypeOK
  OBVIOUS
<1>1. IdleRun \in Run
  <2>1. <<>> \in Seq(Recipients)
    BY EmptySeq
  <2> QED BY <2>1 DEF IdleRun, Run
<1>2. \A e \in DOMAIN Bounds : Bounds[e] \in Nat
  BY CampaignAssumption DEF Bounds
<1>3. events \in [DOMAIN Bounds -> Nat] /\ \A e \in DOMAIN Bounds : events[e] <= Bounds[e]
  BY <1>2 DEF CampaignInit
<1> QED BY <1>1, <1>3, CampaignAssumption DEF CampaignInit, CampaignTypeOK, KeysInit, KeyStatus

\* A bounded event happens within its bound.
LEMMA HappensType ==
  ASSUME CampaignTypeOK, NEW e \in DOMAIN Bounds, Happens(e)
  PROVE  /\ events' \in [DOMAIN Bounds -> Nat]
         /\ \A f \in DOMAIN Bounds : events'[f] <= Bounds[f]
<1>1. Bounds[e] \in Nat
  BY CampaignAssumption DEF Bounds
<1>2. events[e] \in Nat /\ events[e] + 1 \in Nat /\ events[e] + 1 <= Bounds[e]
  BY <1>1 DEF CampaignTypeOK, Happens
<1> HIDE DEF Bounds
<1> QED BY <1>2 DEF CampaignTypeOK, Happens

\* A run comes to another stage of the same send.
LEMMA ToChanges ==
  ASSUME CampaignTypeOK, NEW r \in Runs, NEW at \in Stages, To(r, at)
  PROVE  /\ run' \in [Runs -> Run]
         /\ \A q \in Runs \ {r} : run'[q] = run[q]
         /\ run'[r] = [run[r] EXCEPT !.at = at]
         /\ run'[r].at = at /\ run'[r].page = run[r].page
         /\ run'[r].offset = run[r].offset /\ run'[r].full = run[r].full
         /\ run'[r].excused = run[r].excused /\ run'[r].departures = run[r].departures
<1>1. run[r] \in Run
  BY DEF CampaignTypeOK
<1>2. [run[r] EXCEPT !.at = at] \in Run
  BY <1>1 DEF Run, Stages
<1>3. run' = [run EXCEPT ![r] = [run[r] EXCEPT !.at = at]]
  BY DEF To
<1>4. run' \in [Runs -> Run] /\ run'[r] = [run[r] EXCEPT !.at = at]
  BY <1>2, <1>3 DEF CampaignTypeOK
<1>5. \A q \in Runs \ {r} : run'[q] = run[q]
  BY <1>3 DEF CampaignTypeOK
<1> QED BY <1>1, <1>4, <1>5 DEF Run

\* A run comes to the next user of its page.
LEMMA NextChanges ==
  ASSUME CampaignTypeOK, NEW r \in Runs, run[r].page # <<>>, NextUser(r)
  PROVE  /\ run' \in [Runs -> Run]
         /\ \A q \in Runs \ {r} : run'[q] = run[q]
         /\ run'[r].at = "choosing" /\ run'[r].page = Tail(run[r].page)
         /\ run'[r].offset = run[r].offset /\ run'[r].full = run[r].full
         /\ run'[r].excused = run[r].excused /\ run'[r].departures = run[r].departures
<1>1. run[r] \in Run /\ run[r].page \in Seq(Recipients)
  BY DEF CampaignTypeOK, Run
<1>2. Tail(run[r].page) \in Seq(Recipients)
  BY <1>1, HeadTailProperties
<1>3. [run[r] EXCEPT !.at = "choosing", !.page = Tail(run[r].page)] \in Run
  BY <1>1, <1>2 DEF Run
<1>4. run' = [run EXCEPT ![r] = [run[r] EXCEPT !.at = "choosing", !.page = Tail(run[r].page)]]
  BY DEF NextUser
<1>5. /\ run' \in [Runs -> Run]
      /\ run'[r] = [run[r] EXCEPT !.at = "choosing", !.page = Tail(run[r].page)]
  BY <1>3, <1>4 DEF CampaignTypeOK
<1>6. \A q \in Runs \ {r} : run'[q] = run[q]
  BY <1>4 DEF CampaignTypeOK
<1> QED BY <1>1, <1>5, <1>6 DEF Run

\* A send throws before it has a key.
LEMMA MissChanges ==
  ASSUME CampaignTypeOK, NEW r \in Runs, MissSend(r)
  PROVE  /\ run' \in [Runs -> Run]
         /\ \A q \in Runs \ {r} : run'[q] = run[q]
         /\ run'[r].at = "choosing" /\ run'[r].page = Tail(run[r].page)
         /\ run'[r].offset = run[r].offset /\ run'[r].full = run[r].full
         /\ run'[r].excused = run[r].excused \cup {Addressee(r)}
         /\ run'[r].departures = run[r].departures
<1> DEFINE rest == [run[r] EXCEPT !.page = Tail(run[r].page),
                                  !.excused = run[r].excused \cup {Addressee(r)}]
<1>1. /\ run[r] \in Run /\ run[r].page \in Seq(Recipients) /\ run[r].excused \subseteq Recipients
      /\ run[r].at = "choosing" /\ run[r].page # <<>>
  BY DEF CampaignTypeOK, Run, MissSend
<1>2. Tail(run[r].page) \in Seq(Recipients) /\ Addressee(r) \in Recipients
  BY <1>1, HeadTailProperties DEF Addressee
<1>3. rest \in Run
  BY <1>1, <1>2 DEF Run
<1>4. run' = [run EXCEPT ![r] = rest]
  BY DEF MissSend
<1>5. run' \in [Runs -> Run] /\ run'[r] = rest /\ \A q \in Runs \ {r} : run'[q] = run[q]
  <2> HIDE DEF rest
  <2> QED BY <1>3, <1>4 DEF CampaignTypeOK
<1> QED BY <1>1, <1>5 DEF Run

\* A page lists the users from its offset on, as many as it holds.
LEMMA PageList ==
  ASSUME CampaignTypeOK, NEW offset \in Nat
  PROVE  LET n == Cardinality(audience)
             page == PageAt(offset)
         IN /\ n \in Nat
            /\ ById(audience) \in [1 .. n -> Recipients]
            /\ page \in Seq(Recipients)
            /\ Len(page) <= PageSize
            /\ \A i \in offset + 1 .. n :
                 i - offset <= PageSize =>
                   i - offset \in 1 .. Len(page) /\ page[i - offset] = ById(audience)[i]
            /\ Len(page) # PageSize => \A i \in offset + 1 .. n : i - offset <= PageSize
<1> DEFINE n == Cardinality(audience)
           ids == ById(audience)
           page == PageAt(offset)
           last == IF offset + PageSize < Len(ids) THEN offset + PageSize ELSE Len(ids)
<1>1. audience \subseteq Nat /\ IsFiniteSet(audience)
  BY CampaignAssumption, FS_Subset DEF CampaignTypeOK
<1>2. n \in Nat /\ ids \in [1 .. n -> Recipients]
  BY <1>1, Ordered DEF CampaignTypeOK
<1>3. ids \in Seq(Recipients) /\ Len(ids) = n
  BY <1>2
<1>4. page = SubSeq(ids, offset + 1, last)
  BY DEF PageAt
<1>5. last \in Int /\ PageSize \in Nat
  BY <1>2, <1>3, CampaignAssumption
<1> HIDE DEF ids, page, n
<1>6. \A i \in offset + 1 .. last : i \in 1 .. n /\ ids[i] \in Recipients
  BY <1>2, <1>3, <1>5
<1>7. /\ page \in Seq(Recipients)
      /\ Len(page) = IF offset + 1 <= last THEN last - (offset + 1) + 1 ELSE 0
      /\ \A i \in 1 .. last - (offset + 1) + 1 : page[i] = ids[offset + 1 + i - 1]
  BY <1>4, <1>5, <1>6, SubSeqProperties
<1>8. Len(page) <= PageSize
  BY <1>2, <1>3, <1>5, <1>7
<1>9. ASSUME NEW i \in offset + 1 .. n, i - offset <= PageSize
      PROVE  i - offset \in 1 .. Len(page) /\ page[i - offset] = ids[i]
  <2>1. i <= last
    BY <1>2, <1>3, <1>5, <1>9
  <2>2. i - offset \in 1 .. last - (offset + 1) + 1
    BY <1>5, <2>1
  <2>3. page[i - offset] = ids[offset + 1 + (i - offset) - 1]
    BY <1>7, <2>2
  <2>4. offset + 1 + (i - offset) - 1 = i
    OBVIOUS
  <2> QED BY <1>5, <1>7, <2>2, <2>3, <2>4
<1>10. ASSUME Len(page) # PageSize, NEW i \in offset + 1 .. n PROVE i - offset <= PageSize
  BY <1>2, <1>3, <1>5, <1>7, <1>10
<1> QED BY <1>2, <1>7, <1>8, <1>9, <1>10 DEF n, ids, page

\* A run fetches a page, and ends one.
LEMMA FetchChanges ==
  ASSUME CampaignTypeOK, NEW r \in Runs, FetchPage(r)
  PROVE  /\ run' \in [Runs -> Run]
         /\ \A q \in Runs \ {r} : run'[q] = run[q]
         /\ run'[r].at = "choosing" /\ run'[r].page = PageAt(run[r].offset)
         /\ run'[r].full = (Len(PageAt(run[r].offset)) = PageSize)
         /\ run'[r].offset = run[r].offset
         /\ run'[r].excused = run[r].excused /\ run'[r].departures = run[r].departures
<1> DEFINE page == PageAt(run[r].offset)
           full == (Len(page) = PageSize)
<1>1. run[r] \in Run /\ run[r].offset \in Nat
  BY DEF CampaignTypeOK, Run
<1>2. page \in Seq(Recipients)
  BY <1>1, PageList
<1> HIDE DEF page
<1>3. [run[r] EXCEPT !.at = "choosing", !.page = page, !.full = full] \in Run
  BY <1>1, <1>2 DEF Run
<1>4. run' = [run EXCEPT ![r] = [run[r] EXCEPT !.at = "choosing", !.page = page, !.full = full]]
  BY DEF FetchPage, page
<1>5. /\ run' \in [Runs -> Run]
      /\ run'[r] = [run[r] EXCEPT !.at = "choosing", !.page = page, !.full = full]
  BY <1>3, <1>4 DEF CampaignTypeOK
<1>6. \A q \in Runs \ {r} : run'[q] = run[q]
  BY <1>4 DEF CampaignTypeOK
<1>7. run'[r].at = "choosing" /\ run'[r].page = page /\ run'[r].full = full
  BY <1>1, <1>5 DEF Run
<1> QED BY <1>1, <1>5, <1>6, <1>7 DEF Run, page

LEMMA EndChanges ==
  ASSUME CampaignTypeOK, NEW r \in Runs, EndPage(r)
  PROVE  /\ run' \in [Runs -> Run]
         /\ \A q \in Runs \ {r} : run'[q] = run[q]
         /\ run'[r].page = run[r].page /\ run'[r].full = run[r].full
         /\ run'[r].excused = run[r].excused /\ run'[r].departures = run[r].departures
         /\ run[r].full => /\ run'[r].at = "paging"
                           /\ run'[r].offset = run[r].offset + PageSize
         /\ ~run[r].full => /\ run'[r].at = "finished"
                            /\ run'[r].offset = run[r].offset
<1>1. run[r] \in Run /\ run[r].offset + PageSize \in Nat
  BY CampaignAssumption DEF CampaignTypeOK, Run
<1>2. CASE run[r].full
  <2>1. [run[r] EXCEPT !.at = "paging", !.offset = run[r].offset + PageSize] \in Run
    BY <1>1 DEF Run
  <2>2. run' = [run EXCEPT ![r] =
          [run[r] EXCEPT !.at = "paging", !.offset = run[r].offset + PageSize]]
    BY <1>2 DEF EndPage
  <2>3. /\ run' \in [Runs -> Run]
        /\ run'[r] = [run[r] EXCEPT !.at = "paging", !.offset = run[r].offset + PageSize]
        /\ \A q \in Runs \ {r} : run'[q] = run[q]
    BY <2>1, <2>2 DEF CampaignTypeOK
  <2> QED BY <1>1, <1>2, <2>3 DEF Run
<1>3. CASE ~run[r].full
  <2>1. [run[r] EXCEPT !.at = "finished"] \in Run
    BY <1>1 DEF Run
  <2>2. run' = [run EXCEPT ![r] = [run[r] EXCEPT !.at = "finished"]]
    BY <1>3 DEF EndPage
  <2>3. /\ run' \in [Runs -> Run]
        /\ run'[r] = [run[r] EXCEPT !.at = "finished"]
        /\ \A q \in Runs \ {r} : run'[q] = run[q]
    BY <2>1, <2>2 DEF CampaignTypeOK
  <2> QED BY <1>1, <1>3, <2>3 DEF Run
<1> QED BY <1>2, <1>3

\* A run starts over, or is lost.
LEMMA ResetChanges ==
  ASSUME CampaignTypeOK, NEW r \in Runs, StartRun(r) \/ CrashRun(r)
  PROVE  /\ run' \in [Runs -> Run]
         /\ \A q \in Runs \ {r} : run'[q] = run[q]
         /\ run'[r].at \in {"idle", "paging"} /\ run'[r].offset = 0
<1>1. <<>> \in Seq(Recipients)
  BY EmptySeq
<1>2. IdleRun \in Run /\ [IdleRun EXCEPT !.at = "paging"] \in Run
  BY <1>1 DEF IdleRun, Run
<1>3. \/ run' = [run EXCEPT ![r] = IdleRun]
      \/ run' = [run EXCEPT ![r] = [IdleRun EXCEPT !.at = "paging"]]
  BY DEF StartRun, CrashRun
<1>4. run' \in [Runs -> Run] /\ \A q \in Runs \ {r} : run'[q] = run[q]
  BY <1>2, <1>3 DEF CampaignTypeOK
<1>5. run'[r] = IdleRun \/ run'[r] = [IdleRun EXCEPT !.at = "paging"]
  BY <1>3 DEF CampaignTypeOK
<1> QED BY <1>4, <1>5 DEF IdleRun

\* The audience changes under the runs, which note it.
LEMMA MoveChanges ==
  ASSUME CampaignTypeOK, NEW u \in Recipients, Move(u)
  PROVE  /\ run' \in [Runs -> Run] /\ audience' \subseteq Recipients
         /\ \A q \in Runs :
              /\ run'[q].at = run[q].at /\ run'[q].page = run[q].page
              /\ run'[q].offset = run[q].offset /\ run'[q].full = run[q].full
              /\ run[q].at # "idle" =>
                   /\ run'[q].excused = run[q].excused \cup {u}
                   /\ run'[q].departures = IF u \in audience THEN run[q].departures + 1
                                           ELSE run[q].departures
<1> DEFINE Noted(q) ==
      [run[q] EXCEPT !.excused = run[q].excused \cup {u},
                     !.departures = IF u \in audience THEN run[q].departures + 1
                                    ELSE run[q].departures]
<1>1. ASSUME NEW q \in Runs
      PROVE  run[q] \in Run /\ run'[q] = IF run[q].at = "idle" THEN run[q] ELSE Noted(q)
  BY DEF Move, CampaignTypeOK
<1>2. ASSUME NEW q \in Runs
      PROVE  /\ run'[q] \in Run
             /\ run'[q].at = run[q].at /\ run'[q].page = run[q].page
             /\ run'[q].offset = run[q].offset /\ run'[q].full = run[q].full
             /\ run[q].at # "idle" =>
                  /\ run'[q].excused = run[q].excused \cup {u}
                  /\ run'[q].departures = IF u \in audience THEN run[q].departures + 1
                                          ELSE run[q].departures
  <2>1. CASE run[q].at = "idle"
    BY <1>1, <2>1
  <2>2. CASE run[q].at # "idle"
    <3>1. run'[q] = Noted(q) /\ run[q] \in Run
      BY <1>1, <2>2
    <3>2. /\ run[q].excused \cup {u} \subseteq Recipients
          /\ run[q].departures \in Nat /\ run[q].departures + 1 \in Nat
      BY <3>1 DEF Run
    <3>3. Noted(q) \in Run
      BY <3>1, <3>2 DEF Run
    <3> QED BY <3>1, <3>3 DEF Run
  <2> QED BY <2>1, <2>2
<1>3. run' = [q \in Runs |-> run'[q]]
  BY DEF Move
<1>4. audience' \subseteq Recipients
  BY DEF Move, CampaignTypeOK
<1> QED BY <1>2, <1>3, <1>4

\* Where a run is in the middle of a send.
Working == {"claimed", "recorded", "delivered", "marked", "counted", "refused", "noted"}

\* The user and the key of a send under way.
LEMMA AddresseeType ==
  ASSUME CampaignTypeOK, NEW r \in Runs, run[r].page # <<>>
  PROVE  Addressee(r) \in Recipients /\ KeyOf(r) \in Keys /\ run[r].page \in Seq(Recipients)
<1>1. run[r].page \in Seq(Recipients)
  BY DEF CampaignTypeOK, Run
<1>2. Addressee(r) \in Recipients
  BY <1>1, HeadTailProperties DEF Addressee
<1> QED BY <1>1, <1>2, CampaignAssumption DEF KeyOf

LEMMA FinalizedRow ==
  ASSUME keyRow \in [Keys -> KeyStatus], NEW k \in Keys, NEW status \in KeyStatus
  PROVE  Finalized(k, status) \in [Keys -> KeyStatus]
BY DEF Finalized

\* What a lost connection leaves is a send under way.
LEMMA LeavesWork ==
  ASSUME CampaignTypeOK, NEW r \in Runs, LeaveSend(r) PROVE run[r].at \in Working
<1>1. run[r].at \in Stages
  BY DEF CampaignTypeOK, Run, Stages
<1> QED BY <1>1 DEF LeaveSend, Stages, Working

\* A run in the middle of a send has a page.
PagesHeld == \A r \in Runs : run[r].at \in Working => run[r].page # <<>>

LEMMA PagesHeldStep ==
  CampaignTypeOK /\ PagesHeld /\ [CampaignNext]_<<keyVars, campaignVars>>
    => CampaignTypeOK' /\ PagesHeld'
<1> SUFFICES ASSUME CampaignTypeOK, PagesHeld, [CampaignNext]_<<keyVars, campaignVars>>
             PROVE  CampaignTypeOK' /\ PagesHeld'
  OBVIOUS
<1>0. {"starts", "switches", "moves", "refusals", "crashes"} \subseteq DOMAIN Bounds
  BY DEF Bounds
<1>1. CASE UNCHANGED <<keyVars, campaignVars>>
  BY <1>1 DEF keyVars, campaignVars, CampaignTypeOK, PagesHeld
<1>2. CASE Switch
  BY <1>0, <1>2, HappensType DEF Switch, keyVars, CampaignTypeOK, PagesHeld
<1>3. ASSUME NEW u \in Recipients, Move(u) PROVE CampaignTypeOK' /\ PagesHeld'
  <2>1. Happens("moves")
    BY <1>3 DEF Move
  <2> QED BY <1>0, <1>3, <2>1, MoveChanges, HappensType
          DEF Move, keyVars, CampaignTypeOK, PagesHeld
<1>4. ASSUME NEW r \in Runs, StartRun(r) \/ CrashRun(r) PROVE CampaignTypeOK' /\ PagesHeld'
  <2>1. Happens("starts") \/ Happens("crashes")
    BY <1>4 DEF StartRun, CrashRun
  <2>2. UNCHANGED <<keyVars, active, audience, sendRow, emailed, sendCount>>
    BY <1>4 DEF StartRun, CrashRun
  <2>3. /\ events' \in [DOMAIN Bounds -> Nat]
        /\ \A f \in DOMAIN Bounds : events'[f] <= Bounds[f]
    BY <1>0, <2>1, HappensType
  <2>4. run' \in [Runs -> Run] /\ PagesHeld'
    BY <1>4, ResetChanges DEF PagesHeld, Working
  <2> QED BY <2>2, <2>3, <2>4 DEF keyVars, CampaignTypeOK
<1>5. ASSUME NEW r \in Runs, FetchPage(r) PROVE CampaignTypeOK' /\ PagesHeld'
  <2>1. run' \in [Runs -> Run] /\ PagesHeld'
    BY <1>5, FetchChanges DEF PagesHeld, Working
  <2>2. UNCHANGED <<keyVars, active, audience, sendRow, emailed, sendCount, events>>
    BY <1>5 DEF FetchPage
  <2> QED BY <2>1, <2>2 DEF keyVars, CampaignTypeOK
<1>6. ASSUME NEW r \in Runs, EndPage(r) PROVE CampaignTypeOK' /\ PagesHeld'
  <2>1. run' \in [Runs -> Run] /\ PagesHeld'
    BY <1>6, EndChanges DEF PagesHeld, Working
  <2>2. UNCHANGED <<keyVars, active, audience, sendRow, emailed, sendCount, events>>
    BY <1>6 DEF EndPage
  <2> QED BY <2>1, <2>2 DEF keyVars, CampaignTypeOK
<1>7. ASSUME NEW r \in Runs, NEW at \in Stages, To(r, at), run[r].page # <<>>
      PROVE  run' \in [Runs -> Run] /\ PagesHeld'
  <2>1. /\ run' \in [Runs -> Run] /\ run'[r].page = run[r].page
        /\ \A q \in Runs \ {r} : run'[q] = run[q]
    BY <1>7, ToChanges
  <2>2. ASSUME NEW q \in Runs, run'[q].at \in Working PROVE run'[q].page # <<>>
    BY <1>7, <2>1, <2>2 DEF PagesHeld
  <2> QED BY <2>1, <2>2 DEF PagesHeld
<1>8. ASSUME NEW r \in Runs, NextUser(r), run[r].page # <<>>
      PROVE  run' \in [Runs -> Run] /\ PagesHeld'
  BY <1>8, NextChanges DEF PagesHeld, Working
<1>9. ASSUME NEW r \in Runs, ClaimSend(r) PROVE CampaignTypeOK' /\ PagesHeld'
  <2>1. run[r].page # <<>> /\ KeyOf(r) \in Keys
    BY <1>9, AddresseeType DEF ClaimSend
  <2>2. UNCHANGED <<claim, active, audience, sendRow, emailed, sendCount, events>>
    BY <1>9 DEF ClaimSend
  <2>3. keyRow' \in [Keys -> KeyStatus]
    BY <1>9, <2>1 DEF ClaimSend, CampaignTypeOK, KeyStatus
  <2>4. To(r, "claimed") \/ NextUser(r)
    BY <1>9 DEF ClaimSend
  <2>5. run' \in [Runs -> Run] /\ PagesHeld'
    BY <1>7, <1>8, <2>1, <2>4 DEF Stages
  <2> QED BY <2>2, <2>3, <2>5 DEF CampaignTypeOK
<1>10. ASSUME NEW r \in Runs, RecordSend(r) PROVE CampaignTypeOK' /\ PagesHeld'
  <2>1. run[r].page # <<>> /\ Addressee(r) \in Recipients
    BY <1>10, AddresseeType DEF RecordSend, PagesHeld, Working
  <2>2. run' \in [Runs -> Run] /\ PagesHeld'
    BY <1>7, <1>10, <2>1 DEF RecordSend, Stages
  <2>3. sendRow' \in [Recipients -> {"none", "pending", "sent", "failed"}]
    BY <1>10, <2>1 DEF RecordSend, CampaignTypeOK
  <2> QED BY <1>10, <2>2, <2>3 DEF RecordSend, keyVars, CampaignTypeOK
<1>11. ASSUME NEW r \in Runs, Deliver(r) \/ RefuseSend(r) PROVE CampaignTypeOK' /\ PagesHeld'
  <2>1. run[r].page # <<>> /\ Addressee(r) \in Recipients
    BY <1>11, AddresseeType DEF Deliver, RefuseSend, PagesHeld, Working
  <2>2. run' \in [Runs -> Run] /\ PagesHeld'
    BY <1>7, <1>11, <2>1 DEF Deliver, RefuseSend, Stages
  <2>3. emailed' \in [Recipients -> Nat]
    BY <1>11, <2>1 DEF Deliver, RefuseSend, CampaignTypeOK
  <2>4. /\ events' \in [DOMAIN Bounds -> Nat]
        /\ \A f \in DOMAIN Bounds : events'[f] <= Bounds[f]
    BY <1>0, <1>11, HappensType DEF Deliver, RefuseSend, CampaignTypeOK
  <2>5. UNCHANGED <<keyVars, active, audience, sendRow, sendCount>>
    BY <1>11 DEF Deliver, RefuseSend
  <2> QED BY <2>2, <2>3, <2>4, <2>5 DEF keyVars, CampaignTypeOK
<1>12. ASSUME NEW r \in Runs, BreakSend(r) PROVE CampaignTypeOK' /\ PagesHeld'
  <2>1. run[r].page # <<>>
    BY <1>12 DEF BreakSend, PagesHeld, Working
  <2>2. run' \in [Runs -> Run] /\ PagesHeld'
    BY <1>7, <1>12, <2>1 DEF BreakSend, Stages
  <2>3. /\ events' \in [DOMAIN Bounds -> Nat]
        /\ \A f \in DOMAIN Bounds : events'[f] <= Bounds[f]
    BY <1>0, <1>12, HappensType DEF BreakSend
  <2>4. UNCHANGED <<keyVars, active, audience, sendRow, emailed, sendCount>>
    BY <1>12 DEF BreakSend
  <2> QED BY <2>2, <2>3, <2>4 DEF keyVars, CampaignTypeOK
<1>13. ASSUME NEW r \in Runs, MarkSent(r) \/ NoteFailure(r) PROVE CampaignTypeOK' /\ PagesHeld'
  <2>1. run[r].page # <<>> /\ Addressee(r) \in Recipients
    BY <1>13, AddresseeType DEF MarkSent, NoteFailure, PagesHeld, Working
  <2>2. run' \in [Runs -> Run] /\ PagesHeld'
    BY <1>7, <1>13, <2>1 DEF MarkSent, NoteFailure, Stages
  <2>3. sendRow' \in [Recipients -> {"none", "pending", "sent", "failed"}]
    BY <1>13, <2>1 DEF MarkSent, NoteFailure, CampaignTypeOK
  <2>4. UNCHANGED <<keyVars, active, audience, emailed, sendCount, events>>
    BY <1>13 DEF MarkSent, NoteFailure
  <2> QED BY <2>2, <2>3, <2>4 DEF keyVars, CampaignTypeOK
<1>14. ASSUME NEW r \in Runs, CountSend(r) PROVE CampaignTypeOK' /\ PagesHeld'
  <2>1. run[r].page # <<>>
    BY <1>14 DEF CountSend, PagesHeld, Working
  <2>2. run' \in [Runs -> Run] /\ PagesHeld'
    BY <1>7, <1>14, <2>1 DEF CountSend, Stages
  <2> QED BY <1>14, <2>2 DEF CountSend, keyVars, CampaignTypeOK
<1>15. ASSUME NEW r \in Runs, CompleteSend(r) \/ FailSend(r) PROVE CampaignTypeOK' /\ PagesHeld'
  <2>1. run[r].page # <<>> /\ KeyOf(r) \in Keys
    BY <1>15, AddresseeType DEF CompleteSend, FailSend, PagesHeld, Working
  <2>2. run' \in [Runs -> Run] /\ PagesHeld'
    BY <1>8, <1>15, <2>1 DEF CompleteSend, FailSend
  <2>3. keyRow' \in [Keys -> KeyStatus]
    <3>1. "completed" \in KeyStatus /\ "failed" \in KeyStatus
      BY DEF KeyStatus
    <3>2. keyRow' = Finalized(KeyOf(r), "completed") \/ keyRow' = Finalized(KeyOf(r), "failed")
      BY <1>15 DEF CompleteSend, FailSend
    <3>3. keyRow \in [Keys -> KeyStatus]
      BY DEF CampaignTypeOK
    <3> QED BY <2>1, <3>1, <3>2, <3>3, FinalizedRow
  <2>4. UNCHANGED <<claim, active, audience, sendRow, emailed, sendCount, events>>
    BY <1>15 DEF CompleteSend, FailSend
  <2> QED BY <2>2, <2>3, <2>4 DEF CampaignTypeOK
<1>16. ASSUME NEW r \in Runs, MissSend(r) \/ LeaveSend(r) PROVE CampaignTypeOK' /\ PagesHeld'
  <2>1. run' \in [Runs -> Run] /\ PagesHeld'
    <3>1. CASE MissSend(r)
      BY <3>1, MissChanges DEF PagesHeld, Working
    <3>2. CASE LeaveSend(r)
      <4>1. run[r].page # <<>> /\ NextUser(r)
        BY <3>2, LeavesWork DEF LeaveSend, PagesHeld
      <4> QED BY <1>8, <4>1
    <3> QED BY <1>16, <3>1, <3>2
  <2>2. UNCHANGED <<keyVars, active, audience, sendRow, emailed, sendCount>> /\ Happens("refusals")
    BY <1>16 DEF MissSend, LeaveSend
  <2>3. /\ events' \in [DOMAIN Bounds -> Nat]
        /\ \A f \in DOMAIN Bounds : events'[f] <= Bounds[f]
    BY <1>0, <2>2, HappensType
  <2> QED BY <2>1, <2>2, <2>3 DEF keyVars, CampaignTypeOK
<1> QED BY <1>1, <1>2, <1>3, <1>4, <1>5, <1>6, <1>9, <1>10, <1>11, <1>12, <1>13, <1>14, <1>15,
           <1>16
        DEF CampaignNext

---------------------------------------------------------------------------
(* One message: a send works under a key that nobody else works under.     *)

\* Run r is in the middle of the send to u.
WorksOn(r, u) == run[r].at \in Working /\ Addressee(r) = u

\* What a run in the middle of a send has already done for its user.
SendsInOrder ==
  \A r \in Runs, u \in Recipients : WorksOn(r, u) =>
    /\ keyRow[SendKey[u]] = "in_progress"
    /\ run[r].at \in {"claimed", "recorded"} => emailed[u] = 0
    /\ run[r].at \in {"delivered", "marked", "counted"} => emailed[u] = 1
    /\ run[r].at \in {"marked", "counted"} => sendRow[u] = "sent"

\* No two runs work on one user.
SendsAlone ==
  \A q, r \in Runs, u \in Recipients : WorksOn(q, u) /\ WorksOn(r, u) => q = r

\* What a key says of its user.
KeysTell ==
  \A u \in Recipients :
    /\ keyRow[SendKey[u]] = "none" => emailed[u] = 0
    /\ keyRow[SendKey[u]] = "completed" => sendRow[u] = "sent" /\ emailed[u] = 1

SendInv == SendsInOrder /\ SendsAlone /\ KeysTell /\ EmailedOnce

CampaignTypes == CampaignTypeOK /\ PagesHeld

\* A step that works on nothing.
SendRests ==
  /\ UNCHANGED <<keyVars, sendRow, emailed, sendCount>>
  /\ \A q \in Runs : run'[q].at \in Working => run'[q].at = run[q].at /\ run'[q].page = run[q].page

LEMMA RestKeeps ==
  ASSUME CampaignTypes, SendInv, SendRests PROVE SendInv'
<1>1. ASSUME NEW q \in Runs, NEW u \in Recipients, WorksOn(q, u)'
      PROVE  WorksOn(q, u) /\ run'[q].at = run[q].at
  BY <1>1 DEF WorksOn, Addressee, SendRests
<1>2. keyRow' = keyRow /\ sendRow' = sendRow /\ emailed' = emailed
  BY DEF SendRests, keyVars
<1>3. SendsInOrder'
  BY <1>1, <1>2 DEF SendInv, SendsInOrder
<1>4. SendsAlone'
  BY <1>1 DEF SendInv, SendsAlone
<1> QED BY <1>2, <1>3, <1>4 DEF SendInv, KeysTell, EmailedOnce

\* A step of run r within the send to u that leaves the keys alone.
SendGoesOn(r, u) ==
  /\ run[r].at \in Working /\ u = Addressee(r) /\ u \in Recipients
  /\ UNCHANGED keyVars
  /\ \A q \in Runs \ {r} : run'[q] = run[q]
  /\ run'[r].at \in Working /\ run'[r].page = run[r].page
  /\ \A v \in Recipients \ {u} : emailed'[v] = emailed[v] /\ sendRow'[v] = sendRow[v]

LEMMA GoesOnKeeps ==
  ASSUME CampaignTypes, SendInv, NEW r \in Runs, NEW u, SendGoesOn(r, u),
         emailed'[u] <= 1,
         run'[r].at \in {"claimed", "recorded"} => emailed'[u] = 0,
         run'[r].at \in {"delivered", "marked", "counted"} => emailed'[u] = 1,
         run'[r].at \in {"marked", "counted"} => sendRow'[u] = "sent"
  PROVE  SendInv'
<1>1. ASSUME NEW q \in Runs, NEW v \in Recipients
      PROVE  WorksOn(q, v)' <=> WorksOn(q, v)
  BY DEF WorksOn, Addressee, SendGoesOn
<1>2. WorksOn(r, u) /\ u \in Recipients /\ keyRow' = keyRow
  BY DEF SendGoesOn, WorksOn, keyVars
<1>3. keyRow[SendKey[u]] = "in_progress"
  BY <1>2 DEF SendInv, SendsInOrder
<1>4. SendsAlone'
  BY <1>1 DEF SendInv, SendsAlone
<1>5. SendsInOrder'
  <2> SUFFICES ASSUME NEW q \in Runs, NEW v \in Recipients, WorksOn(q, v)'
               PROVE  /\ keyRow'[SendKey[v]] = "in_progress"
                      /\ run'[q].at \in {"claimed", "recorded"} => emailed'[v] = 0
                      /\ run'[q].at \in {"delivered", "marked", "counted"} => emailed'[v] = 1
                      /\ run'[q].at \in {"marked", "counted"} => sendRow'[v] = "sent"
    BY DEF SendsInOrder
  <2>1. WorksOn(q, v)
    BY <1>1
  <2>2. CASE v = u
    <3>1. q = r
      BY <1>2, <2>1, <2>2 DEF SendInv, SendsAlone
    <3> QED BY <1>2, <1>3, <2>2, <3>1
  <2>3. CASE v # u
    <3>1. q # r /\ emailed'[v] = emailed[v] /\ sendRow'[v] = sendRow[v] /\ run'[q] = run[q]
      BY <1>2, <2>1, <2>3 DEF SendGoesOn, WorksOn
    <3> QED BY <1>2, <2>1, <3>1 DEF SendInv, SendsInOrder
  <2> QED BY <2>2, <2>3
<1>6. ASSUME NEW v \in Recipients
      PROVE  /\ keyRow'[SendKey[v]] = "none" => emailed'[v] = 0
             /\ keyRow'[SendKey[v]] = "completed" => sendRow'[v] = "sent" /\ emailed'[v] = 1
             /\ emailed'[v] <= 1
  <2>1. CASE v = u
    BY <1>2, <1>3, <2>1
  <2>2. CASE v # u
    BY <1>2, <2>2 DEF SendGoesOn, SendInv, KeysTell, EmailedOnce
  <2> QED BY <2>1, <2>2
<1> QED BY <1>4, <1>5, <1>6 DEF SendInv, KeysTell, EmailedOnce

\* The steps within a send.
Within(r) ==
  RecordSend(r) \/ Deliver(r) \/ RefuseSend(r) \/ BreakSend(r) \/ MarkSent(r) \/ CountSend(r)
  \/ NoteFailure(r)

LEMMA WithinGoesOn ==
  ASSUME CampaignTypes, NEW r \in Runs, Within(r)
  PROVE  /\ SendGoesOn(r, Addressee(r)) /\ run' \in [Runs -> Run]
         /\ UNCHANGED audience
         /\ run'[r].offset = run[r].offset /\ run'[r].full = run[r].full
         /\ run'[r].excused = run[r].excused /\ run'[r].departures = run[r].departures
<1>1. run[r].at \in Working
  BY DEF Within, RecordSend, Deliver, RefuseSend, BreakSend, MarkSent, CountSend,
         NoteFailure, Working
<1>2. run[r].page # <<>> /\ Addressee(r) \in Recipients
  BY <1>1, AddresseeType DEF CampaignTypes, PagesHeld
<1>3. PICK at \in Working : To(r, at)
  BY DEF Within, RecordSend, Deliver, RefuseSend, BreakSend, MarkSent, CountSend,
         NoteFailure, Working
<1>4. at \in Stages
  BY DEF Stages, Working
<1>5. UNCHANGED keyVars /\ UNCHANGED audience
  BY DEF Within, RecordSend, Deliver, RefuseSend, BreakSend, MarkSent, CountSend, NoteFailure
<1>6. \A v \in Recipients \ {Addressee(r)} : emailed'[v] = emailed[v] /\ sendRow'[v] = sendRow[v]
  <2>1. /\ \/ emailed' = emailed
           \/ \E n \in {0, 1} : emailed' = [emailed EXCEPT ![Addressee(r)] = @ + n]
        /\ \/ sendRow' = sendRow
           \/ \E s \in {"pending", "sent", "failed"} :
                sendRow' = [sendRow EXCEPT ![Addressee(r)] = s]
    BY DEF Within, RecordSend, Deliver, RefuseSend, BreakSend, MarkSent, CountSend, NoteFailure
  <2>2. /\ emailed \in [Recipients -> Nat]
        /\ sendRow \in [Recipients -> {"none", "pending", "sent", "failed"}]
    BY DEF CampaignTypes, CampaignTypeOK
  <2> QED BY <2>1, <2>2
<1> QED BY <1>1, <1>2, <1>3, <1>4, <1>5, <1>6, ToChanges DEF SendGoesOn, CampaignTypes

\* What a step within a send does for its user.
LEMMA WithinFacts ==
  ASSUME CampaignTypes, SendInv, NEW r \in Runs, NEW u \in Recipients, u = Addressee(r), Within(r)
  PROVE  /\ emailed'[u] <= 1
         /\ run'[r].at \in {"claimed", "recorded"} => emailed'[u] = 0
         /\ run'[r].at \in {"delivered", "marked", "counted"} => emailed'[u] = 1
         /\ run'[r].at \in {"marked", "counted"} => sendRow'[u] = "sent"
<1>1. WorksOn(r, u)
  BY DEF WorksOn, Within, RecordSend, Deliver, RefuseSend, BreakSend, MarkSent, CountSend,
         NoteFailure, Working
<1>2. /\ run[r].at \in {"claimed", "recorded"} => emailed[u] = 0
      /\ run[r].at \in {"delivered", "marked", "counted"} => emailed[u] = 1
      /\ run[r].at \in {"marked", "counted"} => sendRow[u] = "sent"
      /\ emailed[u] <= 1
  BY <1>1 DEF SendInv, SendsInOrder, EmailedOnce
<1>3. \A at \in Stages : To(r, at) => run'[r].at = at
  BY ToChanges DEF CampaignTypes
<1>4. /\ emailed \in [Recipients -> Nat]
      /\ sendRow \in [Recipients -> {"none", "pending", "sent", "failed"}]
  BY DEF CampaignTypes, CampaignTypeOK
<1>5. CASE RecordSend(r)
  BY <1>2, <1>3, <1>5 DEF RecordSend, Stages
<1>6. CASE Deliver(r)
  BY <1>2, <1>3, <1>4, <1>6 DEF Deliver, Stages
<1>7. CASE RefuseSend(r)
  BY <1>2, <1>3, <1>4, <1>7 DEF RefuseSend, Stages
<1>8. CASE BreakSend(r)
  BY <1>2, <1>3, <1>8 DEF BreakSend, Stages
<1>9. CASE MarkSent(r)
  BY <1>2, <1>3, <1>4, <1>9 DEF MarkSent, Stages
<1>10. CASE CountSend(r)
  BY <1>2, <1>3, <1>10 DEF CountSend, Stages
<1>11. CASE NoteFailure(r)
  BY <1>2, <1>3, <1>11 DEF NoteFailure, Stages
<1> QED BY <1>5, <1>6, <1>7, <1>8, <1>9, <1>10, <1>11 DEF Within

\* A step that claims the key of a user or finishes a send.
Claims(r) == ClaimSend(r) /\ Fresh(KeyOf(r))
Skips(r) == ClaimSend(r) /\ ~Fresh(KeyOf(r))
Ends(r) == CompleteSend(r) \/ FailSend(r)

LEMMA ClaimChanges ==
  ASSUME CampaignTypes, NEW r \in Runs, Claims(r)
  PROVE  LET u == Addressee(r) IN
         /\ u \in Recipients /\ keyRow[SendKey[u]] = "none" /\ run[r].at = "choosing"
         /\ \A v \in Recipients : keyRow'[SendKey[v]] = IF v = u THEN "in_progress"
                                                        ELSE keyRow[SendKey[v]]
         /\ \A q \in Runs \ {r} : run'[q] = run[q]
         /\ run'[r].at = "claimed" /\ run'[r].page = run[r].page
         /\ run'[r].offset = run[r].offset /\ run'[r].full = run[r].full
         /\ run'[r].excused = run[r].excused /\ run'[r].departures = run[r].departures
         /\ UNCHANGED <<audience, sendRow, emailed, sendCount>>
<1> DEFINE u == Addressee(r)
<1>1. u \in Recipients /\ SendKey[u] \in Keys /\ KeyOf(r) = SendKey[u]
  BY AddresseeType DEF Claims, ClaimSend, KeyOf, CampaignTypes
<1>2. keyRow' = [keyRow EXCEPT ![SendKey[u]] = "in_progress"] /\ To(r, "claimed")
      /\ keyRow[SendKey[u]] = "none" /\ run[r].at = "choosing"
      /\ UNCHANGED <<audience, sendRow, emailed, sendCount>>
  BY <1>1 DEF Claims, ClaimSend, Fresh
<1>3. \A v \in Recipients : keyRow'[SendKey[v]] = IF v = u THEN "in_progress"
                                                  ELSE keyRow[SendKey[v]]
  BY <1>1, <1>2, CampaignAssumption DEF CampaignTypes, CampaignTypeOK
<1> HIDE DEF u
<1> QED BY <1>1, <1>2, <1>3, ToChanges DEF CampaignTypes, Stages, u

LEMMA SkipChanges ==
  ASSUME CampaignTypes, NEW r \in Runs, Skips(r)
  PROVE  LET u == Addressee(r) IN
         /\ u \in Recipients /\ run[r].at = "choosing" /\ run[r].page # <<>>
         /\ \A q \in Runs \ {r} : run'[q] = run[q]
         /\ run'[r].at = "choosing" /\ run'[r].page = Tail(run[r].page)
         /\ run'[r].offset = run[r].offset /\ run'[r].full = run[r].full
         /\ run'[r].excused = run[r].excused /\ run'[r].departures = run[r].departures
         /\ UNCHANGED <<keyVars, audience, sendRow, emailed, sendCount>>
         /\ (\A s \in Sessions : claim[s] = NoKey) => keyRow[SendKey[u]] # "none"
<1>1. /\ NextUser(r) /\ run[r].page # <<>> /\ run[r].at = "choosing"
      /\ UNCHANGED <<keyVars, audience, sendRow, emailed, sendCount>>
  BY DEF Skips, ClaimSend, keyVars
<1>2. Addressee(r) \in Recipients /\ KeyOf(r) \in Keys
  BY <1>1, AddresseeType DEF CampaignTypes
<1>3. (\A s \in Sessions : claim[s] = NoKey) => keyRow[SendKey[Addressee(r)]] # "none"
  BY <1>2, KeyAssumption DEF Skips, Fresh, KeyOf
<1> QED BY <1>1, <1>2, <1>3, NextChanges DEF CampaignTypes

LEMMA LeaveChanges ==
  ASSUME CampaignTypes, NEW r \in Runs, LeaveSend(r)
  PROVE  /\ Addressee(r) \in Recipients /\ WorksOn(r, Addressee(r)) /\ run[r].page # <<>>
         /\ \A q \in Runs \ {r} : run'[q] = run[q]
         /\ run'[r].at = "choosing" /\ run'[r].page = Tail(run[r].page)
         /\ run'[r].offset = run[r].offset /\ run'[r].full = run[r].full
         /\ run'[r].excused = run[r].excused /\ run'[r].departures = run[r].departures
         /\ UNCHANGED <<keyVars, audience, sendRow, emailed, sendCount>>
<1>1. run[r].at \in Working /\ NextUser(r)
      /\ UNCHANGED <<keyVars, audience, sendRow, emailed, sendCount>>
  BY LeavesWork DEF LeaveSend, CampaignTypes
<1>2. run[r].page # <<>> /\ Addressee(r) \in Recipients
  BY <1>1, AddresseeType DEF CampaignTypes, PagesHeld
<1> QED BY <1>1, <1>2, NextChanges DEF CampaignTypes, WorksOn

LEMMA EndSendChanges ==
  ASSUME CampaignTypes, SendInv, NEW r \in Runs, Ends(r)
  PROVE  LET u == Addressee(r) IN
         /\ u \in Recipients /\ WorksOn(r, u)
         /\ \/ run[r].at = "counted" /\ keyRow'[SendKey[u]] = "completed"
            \/ keyRow'[SendKey[u]] = "failed"
         /\ \A v \in Recipients \ {u} : keyRow'[SendKey[v]] = keyRow[SendKey[v]]
         /\ run[r].page # <<>>
         /\ \A q \in Runs \ {r} : run'[q] = run[q]
         /\ run'[r].at = "choosing" /\ run'[r].page = Tail(run[r].page)
         /\ run'[r].offset = run[r].offset /\ run'[r].full = run[r].full
         /\ run'[r].excused = run[r].excused /\ run'[r].departures = run[r].departures
         /\ UNCHANGED <<audience, sendRow, emailed, sendCount>>
<1> DEFINE u == Addressee(r)
<1>1. /\ NextUser(r) /\ run[r].at \in Working
      /\ \/ run[r].at = "counted" /\ keyRow' = Finalized(KeyOf(r), "completed")
         \/ keyRow' = Finalized(KeyOf(r), "failed")
      /\ UNCHANGED <<audience, sendRow, emailed, sendCount>>
  BY DEF Ends, CompleteSend, FailSend, Working
<1>2. run[r].page # <<>>
  BY <1>1 DEF CampaignTypes, PagesHeld
<1>3. u \in Recipients /\ SendKey[u] \in Keys /\ KeyOf(r) = SendKey[u] /\ WorksOn(r, u)
  BY <1>1, <1>2, AddresseeType DEF KeyOf, CampaignTypes, WorksOn
<1>4. keyRow[SendKey[u]] = "in_progress"
  BY <1>3 DEF SendInv, SendsInOrder
<1>5. \/ run[r].at = "counted" /\ keyRow' = [keyRow EXCEPT ![SendKey[u]] = "completed"]
      \/ keyRow' = [keyRow EXCEPT ![SendKey[u]] = "failed"]
  BY <1>1, <1>3, <1>4 DEF Finalized
<1> HIDE DEF u
<1>6. /\ \/ run[r].at = "counted" /\ keyRow'[SendKey[u]] = "completed"
         \/ keyRow'[SendKey[u]] = "failed"
      /\ \A v \in Recipients \ {u} : keyRow'[SendKey[v]] = keyRow[SendKey[v]]
  BY <1>3, <1>5, CampaignAssumption DEF CampaignTypes, CampaignTypeOK
<1> QED BY <1>1, <1>2, <1>3, <1>6, NextChanges DEF CampaignTypes, u

\* Every step claims, skips, goes on with or ends a send, or leaves the sends alone.
LEMMA Kinds ==
  ASSUME CampaignTypes, [CampaignNext]_<<keyVars, campaignVars>>
  PROVE  \/ SendRests
         \/ \E r \in Runs : Claims(r) \/ Within(r) \/ Ends(r)
<1>1. CASE UNCHANGED <<keyVars, campaignVars>>
  BY <1>1 DEF SendRests, keyVars, campaignVars
<1>2. CASE Switch
  BY <1>2 DEF Switch, SendRests
<1>3. ASSUME NEW u \in Recipients, Move(u) PROVE SendRests
  <2>1. \A q \in Runs : run'[q].at = run[q].at /\ run'[q].page = run[q].page
    BY <1>3, MoveChanges DEF CampaignTypes
  <2> QED BY <1>3, <2>1 DEF Move, SendRests
<1>4. ASSUME NEW r \in Runs, StartRun(r) \/ CrashRun(r) PROVE SendRests
  <2>1. run'[r].at \notin Working /\ \A q \in Runs \ {r} : run'[q] = run[q]
    BY <1>4, ResetChanges DEF CampaignTypes, Working
  <2> QED BY <1>4, <2>1 DEF StartRun, CrashRun, SendRests
<1>5. ASSUME NEW r \in Runs, FetchPage(r) PROVE SendRests
  <2>1. run'[r].at \notin Working /\ \A q \in Runs \ {r} : run'[q] = run[q]
    BY <1>5, FetchChanges DEF CampaignTypes, Working
  <2> QED BY <1>5, <2>1 DEF FetchPage, SendRests
<1>6. ASSUME NEW r \in Runs, EndPage(r) PROVE SendRests
  <2>1. run'[r].at \notin Working /\ \A q \in Runs \ {r} : run'[q] = run[q]
    BY <1>6, EndChanges DEF CampaignTypes, Working
  <2> QED BY <1>6, <2>1 DEF EndPage, SendRests
<1>7. ASSUME NEW r \in Runs, Skips(r) PROVE SendRests
  <2>1. run'[r].at \notin Working /\ \A q \in Runs \ {r} : run'[q] = run[q]
    BY <1>7, SkipChanges DEF Working
  <2> QED BY <1>7, <2>1, SkipChanges DEF SendRests
<1>8. ASSUME NEW r \in Runs, ClaimSend(r) PROVE Claims(r) \/ Skips(r)
  BY <1>8 DEF Claims, Skips
<1>9. ASSUME NEW r \in Runs, MissSend(r) PROVE SendRests
  <2>1. run'[r].at \notin Working /\ \A q \in Runs \ {r} : run'[q] = run[q]
    BY <1>9, MissChanges DEF CampaignTypes, Working
  <2> QED BY <1>9, <2>1 DEF MissSend, SendRests
<1>10. ASSUME NEW r \in Runs, LeaveSend(r) PROVE SendRests
  <2>1. run'[r].at \notin Working /\ \A q \in Runs \ {r} : run'[q] = run[q]
    BY <1>10, LeaveChanges DEF Working
  <2> QED BY <1>10, <2>1 DEF LeaveSend, SendRests
<1> QED BY <1>1, <1>2, <1>3, <1>4, <1>5, <1>6, <1>7, <1>8, <1>9, <1>10
        DEF CampaignNext, Within, Ends

LEMMA SendInvStep ==
  CampaignTypes /\ SendInv /\ [CampaignNext]_<<keyVars, campaignVars>> => SendInv'
<1> SUFFICES ASSUME CampaignTypes, SendInv, [CampaignNext]_<<keyVars, campaignVars>>
             PROVE  SendInv'
  OBVIOUS
<1>1. CASE SendRests
  BY <1>1, RestKeeps
<1>2. ASSUME NEW r \in Runs, Within(r) PROVE SendInv'
  <2>1. SendGoesOn(r, Addressee(r)) /\ Addressee(r) \in Recipients
    BY <1>2, WithinGoesOn DEF SendGoesOn
  <2> QED BY <1>2, <2>1, WithinFacts, GoesOnKeeps
<1>3. ASSUME NEW r \in Runs, Claims(r) PROVE SendInv'
  <2> DEFINE u == Addressee(r)
  <2>1. /\ u \in Recipients /\ keyRow[SendKey[u]] = "none" /\ run[r].at = "choosing"
        /\ \A v \in Recipients : keyRow'[SendKey[v]] = IF v = u THEN "in_progress"
                                                       ELSE keyRow[SendKey[v]]
        /\ \A q \in Runs \ {r} : run'[q] = run[q]
        /\ run'[r].at = "claimed" /\ run'[r].page = run[r].page
        /\ UNCHANGED <<sendRow, emailed>>
    BY <1>3, ClaimChanges
  <2>2. ASSUME NEW q \in Runs, NEW v \in Recipients, WorksOn(q, v)'
        PROVE  (q = r /\ v = u) \/ (q # r /\ v # u /\ WorksOn(q, v))
    <3>1. CASE q = r
      BY <2>1, <2>2, <3>1 DEF WorksOn, Addressee
    <3>2. CASE q # r
      <4>1. WorksOn(q, v)
        BY <2>1, <2>2, <3>2 DEF WorksOn, Addressee
      <4>2. keyRow[SendKey[v]] = "in_progress"
        BY <4>1 DEF SendInv, SendsInOrder
      <4> QED BY <2>1, <3>2, <4>1, <4>2
    <3> QED BY <3>1, <3>2
  <2>3. emailed[u] = 0
    BY <2>1 DEF SendInv, KeysTell
  <2> HIDE DEF u
  <2>4. SendsAlone'
    BY <2>2 DEF SendInv, SendsAlone
  <2>5. SendsInOrder'
    <3> SUFFICES ASSUME NEW q \in Runs, NEW v \in Recipients, WorksOn(q, v)'
                 PROVE  /\ keyRow'[SendKey[v]] = "in_progress"
                        /\ run'[q].at \in {"claimed", "recorded"} => emailed'[v] = 0
                        /\ run'[q].at \in {"delivered", "marked", "counted"} => emailed'[v] = 1
                        /\ run'[q].at \in {"marked", "counted"} => sendRow'[v] = "sent"
      BY DEF SendsInOrder
    <3>1. CASE q = r /\ v = u
      BY <2>1, <2>3, <3>1
    <3>2. CASE q # r /\ v # u /\ WorksOn(q, v)
      BY <2>1, <3>2 DEF SendInv, SendsInOrder
    <3> QED BY <2>2, <3>1, <3>2
  <2>6. KeysTell'
    BY <2>1 DEF SendInv, KeysTell
  <2> QED BY <2>1, <2>4, <2>5, <2>6 DEF SendInv, EmailedOnce
<1>4. ASSUME NEW r \in Runs, Ends(r) PROVE SendInv'
  <2> DEFINE u == Addressee(r)
  <2>1. /\ u \in Recipients /\ WorksOn(r, u)
        /\ \/ run[r].at = "counted" /\ keyRow'[SendKey[u]] = "completed"
           \/ keyRow'[SendKey[u]] = "failed"
        /\ \A v \in Recipients \ {u} : keyRow'[SendKey[v]] = keyRow[SendKey[v]]
        /\ \A q \in Runs \ {r} : run'[q] = run[q]
        /\ run'[r].at = "choosing"
        /\ UNCHANGED <<sendRow, emailed>>
    BY <1>4, EndSendChanges
  <2> HIDE DEF u
  <2>2. ASSUME NEW q \in Runs, NEW v \in Recipients, WorksOn(q, v)'
        PROVE  q # r /\ v # u /\ WorksOn(q, v) /\ run'[q] = run[q]
    <3>1. q # r
      BY <2>1, <2>2 DEF WorksOn, Working
    <3>2. WorksOn(q, v)
      BY <2>1, <2>2, <3>1 DEF WorksOn, Addressee
    <3> QED BY <2>1, <3>1, <3>2 DEF SendInv, SendsAlone
  <2>3. SendsAlone'
    BY <2>2 DEF SendInv, SendsAlone
  <2>4. SendsInOrder'
    BY <2>1, <2>2 DEF SendInv, SendsInOrder
  <2>5. KeysTell'
    <3>1. run[r].at = "counted" => sendRow[u] = "sent" /\ emailed[u] = 1
      BY <2>1 DEF SendInv, SendsInOrder
    <3> QED BY <2>1, <3>1 DEF SendInv, KeysTell
  <2> QED BY <2>1, <2>3, <2>4, <2>5 DEF SendInv, EmailedOnce
<1> QED BY <1>1, <1>2, <1>3, <1>4, Kinds

LEMMA SendInvInit == CampaignInit => CampaignTypes /\ SendInv
<1> SUFFICES ASSUME CampaignInit PROVE CampaignTypes /\ SendInv
  OBVIOUS
<1>1. \A r \in Runs : run[r].at \notin Working
  BY DEF CampaignInit, IdleRun, Working
<1>2. \A u \in Recipients : SendKey[u] \in Keys /\ keyRow[SendKey[u]] = "none" /\ emailed[u] = 0
  BY CampaignAssumption DEF CampaignInit, KeysInit
<1> QED BY <1>1, <1>2, CampaignTypesInit
        DEF CampaignTypes, PagesHeld, SendInv, SendsInOrder, SendsAlone, KeysTell, EmailedOnce,
            WorksOn

\* However runs overlap, crash and are triggered again, and although a provider may
\* deliver a message and throw, nobody gets the message of an audience scope twice
\* (the insert of the key in sendCampaign commits before anything is sent).
THEOREM OneMessage == CampaignSpec => []EmailedOnce
<1>1. CampaignInit => CampaignTypes /\ SendInv
  BY SendInvInit
<1>2. CampaignTypes /\ SendInv /\ [CampaignNext]_<<keyVars, campaignVars>>
        => (CampaignTypes /\ SendInv)'
  BY PagesHeldStep, SendInvStep DEF CampaignTypes
<1>3. SendInv => EmailedOnce
  BY DEF SendInv
<1> QED BY <1>1, <1>2, <1>3, PTL DEF CampaignSpec

---------------------------------------------------------------------------
(* The counter of the campaign.                                            *)

\* The users that send_count has counted: every completed one, none without a
\* message, and of those being sent to the ones whose run has come that far.
CountedBy(users) ==
  /\ users \subseteq Recipients /\ Cardinality(users) = sendCount
  /\ \A u \in Recipients : keyRow[SendKey[u]] = "completed" => u \in users
  /\ \A u \in users : emailed[u] = 1
  /\ \A r \in Runs, u \in Recipients : WorksOn(r, u) =>
       /\ run[r].at = "counted" => u \in users
       /\ run[r].at \in {"claimed", "recorded", "delivered", "marked"} => u \notin users

CountInv == \E users : CountedBy(users)

\* What a step within a send does to the counter.
LEMMA WithinCounts ==
  ASSUME CampaignTypes, NEW r \in Runs, NEW u \in Recipients, u = Addressee(r), Within(r)
  PROVE  \/ /\ run[r].at = "marked" /\ run'[r].at = "counted"
            /\ sendCount' = sendCount + 1 /\ emailed' = emailed
         \/ /\ sendCount' = sendCount
            /\ run[r].at = "recorded" \/ emailed'[u] = emailed[u]
            /\ run'[r].at # "counted"
            /\ run'[r].at \in {"claimed", "recorded", "delivered", "marked"} =>
                 run[r].at \in {"claimed", "recorded", "delivered", "marked"}
<1>1. \A at \in Stages : To(r, at) => run'[r].at = at
  BY ToChanges DEF CampaignTypes
<1>2. CASE RecordSend(r)
  BY <1>1, <1>2 DEF RecordSend, Stages
<1>3. CASE Deliver(r)
  BY <1>1, <1>3 DEF Deliver, Stages
<1>4. CASE RefuseSend(r)
  BY <1>1, <1>4 DEF RefuseSend, Stages
<1>5. CASE BreakSend(r)
  BY <1>1, <1>5 DEF BreakSend, Stages
<1>6. CASE MarkSent(r)
  BY <1>1, <1>6 DEF MarkSent, Stages
<1>7. CASE CountSend(r)
  BY <1>1, <1>7 DEF CountSend, Stages
<1>8. CASE NoteFailure(r)
  BY <1>1, <1>8 DEF NoteFailure, Stages
<1> QED BY <1>2, <1>3, <1>4, <1>5, <1>6, <1>7, <1>8 DEF Within

LEMMA CountInvStep ==
  ASSUME CampaignTypes, SendInv, CountInv, [CampaignNext]_<<keyVars, campaignVars>>
  PROVE  CountInv'
<1>1. PICK users : CountedBy(users)
  BY DEF CountInv
<1>2. CASE SendRests
  <2>1. ASSUME NEW q \in Runs, NEW u \in Recipients, WorksOn(q, u)'
        PROVE  WorksOn(q, u) /\ run'[q].at = run[q].at
    BY <1>2, <2>1 DEF WorksOn, Addressee, SendRests
  <2>2. CountedBy(users)'
    BY <1>1, <1>2, <2>1 DEF CountedBy, SendRests, keyVars
  <2> QED BY <2>2 DEF CountInv
<1>3. ASSUME NEW r \in Runs, Within(r) PROVE CountInv'
  <2>1. PICK u : u = Addressee(r) /\ SendGoesOn(r, u)
    BY <1>3, WithinGoesOn
  <2>2. u \in Recipients /\ u = Addressee(r)
    BY <2>1 DEF SendGoesOn
  <2>3. WorksOn(r, u) /\ keyRow' = keyRow
    BY <2>1 DEF WorksOn, SendGoesOn, keyVars
  <2>4. \A v \in Recipients \ {u} : emailed'[v] = emailed[v]
    BY <2>1 DEF SendGoesOn
  <2>5. \A q \in Runs, v \in Recipients : WorksOn(q, v)' <=> WorksOn(q, v)
    BY <2>1 DEF WorksOn, Addressee, SendGoesOn
  <2>6. \A q \in Runs : q # r => run'[q] = run[q] /\ ~WorksOn(q, u)
    BY <2>1, <2>2, <2>3 DEF SendGoesOn, SendInv, SendsAlone
  <2>7. \A v \in Recipients : WorksOn(r, v) => v = u
    BY <2>2 DEF WorksOn
  <2>8. CASE run[r].at = "marked" /\ run'[r].at = "counted"
             /\ sendCount' = sendCount + 1 /\ emailed' = emailed
    <3>1. u \notin users /\ users \subseteq Recipients /\ Cardinality(users) = sendCount
      BY <1>1, <2>2, <2>3, <2>8 DEF CountedBy
    <3>2. Cardinality(users \cup {u}) = sendCount'
      <4>1. IsFiniteSet(users)
        BY <3>1, CampaignAssumption, FS_Subset
      <4> QED BY <2>8, <3>1, <4>1, FS_AddElement
    <3>3. emailed'[u] = 1
      BY <2>2, <2>3, <2>8 DEF SendInv, SendsInOrder
    <3>4. CountedBy(users \cup {u})'
      <4>1. ASSUME NEW q \in Runs, NEW v \in Recipients, WorksOn(q, v)'
            PROVE  /\ run'[q].at = "counted" => v \in users \cup {u}
                   /\ run'[q].at \in {"claimed", "recorded", "delivered", "marked"}
                        => v \notin users \cup {u}
        <5>1. WorksOn(q, v)
          BY <2>5, <4>1
        <5>2. CASE q = r
          BY <2>7, <2>8, <5>1, <5>2
        <5>3. CASE q # r
          BY <1>1, <2>6, <5>1, <5>3 DEF CountedBy
        <5> QED BY <5>2, <5>3
      <4>2. \A v \in users \cup {u} : emailed'[v] = 1
        BY <1>1, <2>8, <3>3 DEF CountedBy
      <4>3. \A v \in Recipients : keyRow'[SendKey[v]] = "completed" => v \in users \cup {u}
        BY <1>1, <2>3 DEF CountedBy
      <4> QED BY <2>2, <3>1, <3>2, <4>1, <4>2, <4>3 DEF CountedBy
    <3> QED BY <3>4 DEF CountInv
  <2>9. CASE /\ sendCount' = sendCount
             /\ run[r].at = "recorded" \/ emailed'[u] = emailed[u]
             /\ run'[r].at # "counted"
             /\ run'[r].at \in {"claimed", "recorded", "delivered", "marked"} =>
                  run[r].at \in {"claimed", "recorded", "delivered", "marked"}
    <3>1. run[r].at \in {"claimed", "recorded", "delivered", "marked"} => u \notin users
      BY <1>1, <2>2, <2>3 DEF CountedBy
    <3>2. \A v \in users : emailed'[v] = 1
      BY <1>1, <2>4, <2>9, <3>1 DEF CountedBy
    <3>3. ASSUME NEW q \in Runs, NEW v \in Recipients, WorksOn(q, v)'
          PROVE  /\ run'[q].at = "counted" => v \in users
                 /\ run'[q].at \in {"claimed", "recorded", "delivered", "marked"}
                      => v \notin users
      <4>1. WorksOn(q, v)
        BY <2>5, <3>3
      <4>2. CASE q = r
        BY <2>7, <2>9, <3>1, <4>1, <4>2
      <4>3. CASE q # r
        BY <1>1, <2>6, <4>1, <4>3 DEF CountedBy
      <4> QED BY <4>2, <4>3
    <3>4. CountedBy(users)'
      BY <1>1, <2>3, <2>9, <3>2, <3>3 DEF CountedBy
    <3> QED BY <3>4 DEF CountInv
  <2> QED BY <1>3, <2>2, <2>8, <2>9, WithinCounts
<1>4. ASSUME NEW r \in Runs, Claims(r) PROVE CountInv'
  <2> DEFINE u == Addressee(r)
  <2>1. /\ u \in Recipients /\ keyRow[SendKey[u]] = "none"
        /\ \A v \in Recipients : keyRow'[SendKey[v]] = IF v = u THEN "in_progress"
                                                       ELSE keyRow[SendKey[v]]
        /\ \A q \in Runs \ {r} : run'[q] = run[q]
        /\ run'[r].at = "claimed" /\ run'[r].page = run[r].page
        /\ UNCHANGED <<emailed, sendCount>>
    BY <1>4, ClaimChanges
  <2>2. u \notin users
    <3>1. emailed[u] = 0
      BY <2>1 DEF SendInv, KeysTell
    <3> QED BY <1>1, <3>1 DEF CountedBy
  <2>3. ASSUME NEW q \in Runs, NEW v \in Recipients, WorksOn(q, v)'
        PROVE  /\ run'[q].at = "counted" => v \in users
               /\ run'[q].at \in {"claimed", "recorded", "delivered", "marked"}
                    => v \notin users
    <3>1. CASE q = r
      BY <2>1, <2>2, <2>3, <3>1 DEF WorksOn, Addressee
    <3>2. CASE q # r
      <4>1. WorksOn(q, v)
        BY <2>1, <2>3, <3>2 DEF WorksOn, Addressee
      <4> QED BY <1>1, <2>1, <3>2, <4>1 DEF CountedBy
    <3> QED BY <3>1, <3>2
  <2> HIDE DEF u
  <2>4. CountedBy(users)'
    BY <1>1, <2>1, <2>3 DEF CountedBy
  <2> QED BY <2>4 DEF CountInv
<1>5. ASSUME NEW r \in Runs, Ends(r) PROVE CountInv'
  <2> DEFINE u == Addressee(r)
  <2>1. /\ u \in Recipients /\ WorksOn(r, u)
        /\ \/ run[r].at = "counted" /\ keyRow'[SendKey[u]] = "completed"
           \/ keyRow'[SendKey[u]] = "failed"
        /\ \A v \in Recipients \ {u} : keyRow'[SendKey[v]] = keyRow[SendKey[v]]
        /\ \A q \in Runs \ {r} : run'[q] = run[q]
        /\ run'[r].at = "choosing"
        /\ UNCHANGED <<emailed, sendCount>>
    BY <1>5, EndSendChanges
  <2> HIDE DEF u
  <2>2. \A v \in Recipients : keyRow'[SendKey[v]] = "completed" => v \in users
    BY <1>1, <2>1 DEF CountedBy
  <2>3. ASSUME NEW q \in Runs, NEW v \in Recipients, WorksOn(q, v)'
        PROVE  WorksOn(q, v) /\ run'[q] = run[q]
    <3>1. q # r
      BY <2>1, <2>3 DEF WorksOn, Working
    <3> QED BY <2>1, <2>3, <3>1 DEF WorksOn, Addressee
  <2>4. CountedBy(users)'
    BY <1>1, <2>1, <2>2, <2>3 DEF CountedBy
  <2> QED BY <2>4 DEF CountInv
<1> QED BY <1>2, <1>3, <1>4, <1>5, Kinds

LEMMA CountInvInit == CampaignInit => CountInv
<1> SUFFICES ASSUME CampaignInit PROVE CountInv
  OBVIOUS
<1>1. \A r \in Runs : run[r].at \notin Working
  BY DEF CampaignInit, IdleRun, Working
<1>2. \A u \in Recipients : SendKey[u] \in Keys /\ keyRow[SendKey[u]] = "none"
  BY CampaignAssumption DEF CampaignInit, KeysInit
<1>3. CountedBy({})
  BY <1>1, <1>2, FS_EmptySet DEF CountedBy, CampaignInit, WorksOn
<1> QED BY <1>3 DEF CountInv

\* The counter lies between the users whose key is completed and the users who have
\* the message, and a completed key has a row that says sent.
LEMMA CountBounds ==
  ASSUME CampaignTypes, SendInv, CountInv PROVE SendsAccounted
<1>1. PICK users : CountedBy(users)
  BY DEF CountInv
<1> DEFINE reached == {u \in Recipients : emailed[u] >= 1}
<1>2. users \in SUBSET reached /\ Completed \in SUBSET users
  BY <1>1 DEF CountedBy, Completed
<1>3. IsFiniteSet(users) /\ IsFiniteSet(reached)
  BY <1>1, CampaignAssumption, FS_Subset DEF CountedBy
<1>4. Cardinality(Completed) <= Cardinality(users) /\ Cardinality(users) <= Cardinality(reached)
  BY <1>2, <1>3, FS_Subset
<1>5. \A u \in Completed : sendRow[u] = "sent"
  BY DEF SendInv, KeysTell, Completed
<1> QED BY <1>1, <1>4, <1>5 DEF CountedBy, SendsAccounted

\* send_count never misses a send whose key says completed and never counts a user
\* without a message, although the two are written by statements that commit apart.
THEOREM SendsCounted == CampaignSpec => []SendsAccounted
<1>1. CampaignInit => CampaignTypes /\ SendInv /\ CountInv
  BY SendInvInit, CountInvInit
<1>2. CampaignTypes /\ SendInv /\ CountInv /\ [CampaignNext]_<<keyVars, campaignVars>>
        => (CampaignTypes /\ SendInv /\ CountInv)'
  BY PagesHeldStep, SendInvStep, CountInvStep DEF CampaignTypes
<1>3. CampaignTypes /\ SendInv /\ CountInv => SendsAccounted
  BY CountBounds
<1> QED BY <1>1, <1>2, <1>3, PTL DEF CampaignSpec

---------------------------------------------------------------------------
(* The pages of a run.                                                     *)

\* A send to u has begun.
Reached(u) == keyRow[SendKey[u]] # "none"

\* The page of r still holds u.
OnPage(r, u) ==
  /\ run[r].at \in {"choosing"} \cup Working
  /\ \E j \in 1 .. Len(run[r].page) : run[r].page[j] = u

\* The offset of r has come past the place of u.
Behind(r, u) ==
  /\ run[r].at # "idle"
  /\ run[r].at = "paging" => Rank(u, audience) <= run[r].offset
  /\ run[r].at \in {"choosing"} \cup Working /\ run[r].full =>
       Rank(u, audience) <= run[r].offset + PageSize

\* The users r has passed over: RunReachesAll bounds them when r has finished.
Lost(r) ==
  {u \in audience \ run[r].excused : Behind(r, u) /\ ~OnPage(r, u) /\ ~Reached(u)}

PageInv ==
  /\ \A s \in Sessions : claim[s] = NoKey
  /\ \A r \in Runs : Cardinality(Lost(r)) <= run[r].departures

LEMMA AudienceOrder ==
  ASSUME CampaignTypes
  PROVE  /\ audience \subseteq Nat /\ IsFiniteSet(audience) /\ Cardinality(audience) \in Nat
         /\ \A u \in audience : /\ u \in Recipients /\ Rank(u, audience) \in 1 .. Cardinality(audience)
                                /\ ById(audience)[Rank(u, audience)] = u
<1>1. audience \subseteq Nat /\ IsFiniteSet(audience) /\ audience \subseteq Recipients
  BY CampaignAssumption, FS_Subset DEF CampaignTypes, CampaignTypeOK
<1> QED BY <1>1, Ordered

\* Losing nobody else keeps the bound.
LEMMA FewerLost ==
  ASSUME CampaignTypes, PageInv, NEW r \in Runs,
         Lost(r)' \subseteq Lost(r), run'[r].departures = run[r].departures
  PROVE  Cardinality(Lost(r)') <= run'[r].departures
<1>1. Lost(r) \in SUBSET audience
  BY DEF Lost
<1>2. IsFiniteSet(Lost(r))
  BY <1>1, AudienceOrder, FS_Subset
<1>3. /\ Cardinality(Lost(r)') <= Cardinality(Lost(r))
      /\ Cardinality(Lost(r)') \in Nat /\ Cardinality(Lost(r)) \in Nat
  BY <1>2, FS_Subset, FS_CardinalityType
<1>4. Cardinality(Lost(r)) <= run[r].departures /\ run[r].departures \in Nat
  BY DEF PageInv, CampaignTypes, CampaignTypeOK, Run
<1> QED BY <1>3, <1>4

LEMMA ClaimsStayFree ==
  ASSUME [CampaignNext]_<<keyVars, campaignVars>> PROVE claim' = claim
BY DEF CampaignNext, keyVars, campaignVars, Switch, Move, StartRun, FetchPage, EndPage, ClaimSend,
       RecordSend, Deliver, RefuseSend, BreakSend, MarkSent, CountSend, CompleteSend, NoteFailure,
       FailSend, MissSend, LeaveSend, CrashRun

\* Nobody who was reached is forgotten.
LEMMA ReachedStays ==
  ASSUME CampaignTypes, SendInv, [CampaignNext]_<<keyVars, campaignVars>>,
         NEW u \in Recipients, Reached(u)
  PROVE  Reached(u)'
<1>1. CASE SendRests
  BY <1>1 DEF SendRests, keyVars, Reached
<1>2. ASSUME NEW r \in Runs, Claims(r) PROVE Reached(u)'
  BY <1>2, ClaimChanges DEF Reached
<1>3. ASSUME NEW r \in Runs, Within(r) PROVE Reached(u)'
  BY <1>3, WithinGoesOn DEF SendGoesOn, keyVars, Reached
<1>4. ASSUME NEW r \in Runs, Ends(r) PROVE Reached(u)'
  BY <1>4, EndSendChanges DEF Reached
<1> QED BY <1>1, <1>2, <1>3, <1>4, Kinds

\* A run that stays where it is, or goes on within its page, loses nothing.
LEMMA PageGoesOn ==
  ASSUME CampaignTypes, NEW r \in Runs, UNCHANGED audience,
         \A u \in Recipients : Reached(u) => Reached(u)',
         run'[r].offset = run[r].offset, run'[r].full = run[r].full,
         run'[r].page = run[r].page, run'[r].excused = run[r].excused,
         \/ run'[r].at = run[r].at
         \/ {run[r].at, run'[r].at} \subseteq {"choosing"} \cup Working
  PROVE  Lost(r)' \subseteq Lost(r)
<1> SUFFICES ASSUME NEW u, u \in Lost(r)' PROVE u \in Lost(r)
  OBVIOUS
<1>1. u \in audience \ run[r].excused /\ Behind(r, u)' /\ ~OnPage(r, u)' /\ ~Reached(u)'
  BY DEF Lost
<1>2. ~Reached(u)
  BY <1>1, AudienceOrder
<1>3. run'[r].at \in {"choosing"} \cup Working <=> run[r].at \in {"choosing"} \cup Working
  OBVIOUS
<1>4. ~OnPage(r, u)
  BY <1>1, <1>3 DEF OnPage
<1>5. Behind(r, u)
  BY <1>1, <1>3 DEF Behind, Rank, Working
<1> QED BY <1>1, <1>2, <1>4, <1>5 DEF Lost

\* A run that leaves the first user of its page behind has reached or excused that user.
LEMMA UserGoneThrough ==
  ASSUME CampaignTypes, NEW r \in Runs, UNCHANGED audience,
         \A u \in Recipients : Reached(u) => Reached(u)',
         keyRow'[SendKey[Addressee(r)]] # "none" \/ Addressee(r) \in run'[r].excused,
         run'[r].offset = run[r].offset, run'[r].full = run[r].full,
         run[r].excused \subseteq run'[r].excused,
         run[r].page # <<>>, run'[r].page = Tail(run[r].page),
         run[r].at \in {"choosing"} \cup Working, run'[r].at = "choosing"
  PROVE  Lost(r)' \subseteq Lost(r)
<1> SUFFICES ASSUME NEW u, u \in Lost(r)' PROVE u \in Lost(r)
  OBVIOUS
<1>1. u \in audience \ run'[r].excused /\ Behind(r, u)' /\ ~OnPage(r, u)' /\ ~Reached(u)'
  BY DEF Lost
<1>2. ~Reached(u)
  BY <1>1, AudienceOrder
<1>3. run[r].page \in Seq(Recipients)
  BY DEF CampaignTypes, CampaignTypeOK, Run
<1>4. u # Addressee(r)
  BY <1>1 DEF Reached
<1>5. ASSUME OnPage(r, u) PROVE FALSE
  <2>1. PICK j \in 1 .. Len(run[r].page) : run[r].page[j] = u
    BY <1>5 DEF OnPage
  <2>2. /\ Len(Tail(run[r].page)) = Len(run[r].page) - 1
        /\ \A k \in 1 .. Len(Tail(run[r].page)) : Tail(run[r].page)[k] = run[r].page[k + 1]
        /\ Len(run[r].page) \in Nat
    BY <1>3, HeadTailProperties, LenProperties
  <2>3. j # 1
    BY <1>3, <1>4, <2>1 DEF Addressee
  <2>4. j - 1 \in 1 .. Len(Tail(run[r].page)) /\ j - 1 + 1 = j
    BY <2>1, <2>2, <2>3
  <2>5. Tail(run[r].page)[j - 1] = u
    BY <2>1, <2>2, <2>4
  <2> QED BY <1>1, <2>4, <2>5 DEF OnPage
<1>6. Behind(r, u)
  BY <1>1 DEF Behind, Rank, Working
<1> QED BY <1>1, <1>2, <1>5, <1>6 DEF Lost

\* The page that is fetched starts where the ones before it have ended.
LEMMA PageFetched ==
  ASSUME CampaignTypes, NEW r \in Runs, FetchPage(r)
  PROVE  Lost(r)' \subseteq Lost(r)
<1> DEFINE n == Cardinality(audience)
           ids == ById(audience)
           offset == run[r].offset
           page == PageAt(offset)
<1>1. /\ run'[r].at = "choosing" /\ run'[r].page = page
      /\ run'[r].full = (Len(page) = PageSize) /\ run'[r].offset = offset
      /\ run'[r].excused = run[r].excused
      /\ run[r].at = "paging" /\ keyRow' = keyRow /\ audience' = audience
  BY FetchChanges DEF CampaignTypes, FetchPage, keyVars
<1>2. offset \in Nat /\ PageSize \in Nat
  BY CampaignAssumption DEF CampaignTypes, CampaignTypeOK, Run
<1>3. /\ n \in Nat
      /\ \A i \in offset + 1 .. n :
           i - offset <= PageSize => i - offset \in 1 .. Len(page) /\ page[i - offset] = ids[i]
      /\ Len(page) # PageSize => \A i \in offset + 1 .. n : i - offset <= PageSize
  BY <1>2, PageList DEF CampaignTypes
<1> SUFFICES ASSUME NEW u, u \in Lost(r)' PROVE u \in Lost(r)
  OBVIOUS
<1> DEFINE i == Rank(u, audience)
<1>4. /\ u \in audience \ run[r].excused /\ ~Reached(u)
      /\ run'[r].full => i <= offset + PageSize
      /\ ~\E j \in 1 .. Len(page) : page[j] = u
  BY <1>1 DEF Lost, Reached, Behind, OnPage, Rank
<1>5. i \in 1 .. n /\ ids[i] = u
  BY <1>4, AudienceOrder
<1>6. i <= offset
  <2> SUFFICES ASSUME ~(i <= offset) PROVE FALSE
    OBVIOUS
  <2> HIDE DEF i, ids, page, n
  <2>1. i \in offset + 1 .. n
    BY <1>2, <1>3, <1>5
  <2>2. i - offset <= PageSize
    <3>1. CASE run'[r].full
      BY <1>2, <1>3, <1>4, <1>5, <3>1
    <3>2. CASE ~run'[r].full
      BY <1>1, <1>3, <2>1, <3>2
    <3> QED BY <3>1, <3>2
  <2>3. i - offset \in 1 .. Len(page) /\ page[i - offset] = u
    BY <1>3, <1>5, <2>1, <2>2
  <2> QED BY <1>4, <2>3
<1> HIDE DEF ids, page, n
<1> QED BY <1>1, <1>4, <1>6 DEF Lost, Behind, OnPage, Working

\* The end of a page: the next one starts behind it, or nobody is left.
LEMMA PageEnded ==
  ASSUME CampaignTypes, NEW r \in Runs, EndPage(r)
  PROVE  Lost(r)' \subseteq Lost(r)
<1>1. /\ run[r].at = "choosing" /\ run[r].page = <<>> /\ keyRow' = keyRow /\ audience' = audience
      /\ run'[r].excused = run[r].excused
      /\ run[r].full => run'[r].at = "paging" /\ run'[r].offset = run[r].offset + PageSize
      /\ ~run[r].full => run'[r].at = "finished"
  BY EndChanges DEF CampaignTypes, EndPage, keyVars
<1>2. \A u : ~OnPage(r, u)
  BY <1>1, EmptySeq DEF OnPage
<1> QED BY <1>1, <1>2 DEF Lost, Behind, Reached, Rank, Working

\* A run that starts over or is lost has passed nobody.
LEMMA ResetLosesNone ==
  ASSUME CampaignTypes, NEW r \in Runs, StartRun(r) \/ CrashRun(r)
  PROVE  Cardinality(Lost(r)') <= run'[r].departures
<1>1. run' \in [Runs -> Run] /\ run'[r].at \in {"idle", "paging"} /\ run'[r].offset = 0
  BY ResetChanges DEF CampaignTypes
<1>2. audience' = audience
  BY DEF StartRun, CrashRun
<1>3. \A u \in audience : Rank(u, audience) >= 1
  BY AudienceOrder
<1>4. \A u \in audience : Rank(u, audience)' >= 1
  BY <1>2, <1>3 DEF Rank
<1>5. \A u \in audience : ~Behind(r, u)'
  <2>1. \A u \in audience : Rank(u, audience)' \in Nat
    <3>1. \A u \in audience : Rank(u, audience)' = Rank(u, audience)
      BY <1>2 DEF Rank
    <3> QED BY <3>1, AudienceOrder
  <2> QED BY <1>1, <1>4, <2>1 DEF Behind
<1>6. Lost(r)' = {}
  BY <1>2, <1>5 DEF Lost
<1>7. run'[r].departures \in Nat
  BY <1>1 DEF Run
<1> QED BY <1>6, <1>7, FS_EmptySet

\* A user who enters makes a run pass over nobody else, and one who leaves at most
\* the user whose place was the first that the run had not passed.
LEMMA MoveLosesOne ==
  ASSUME CampaignTypes, PageInv, NEW x \in Recipients, Move(x), NEW r \in Runs
  PROVE  Cardinality(Lost(r)') <= run'[r].departures
<1>1. /\ run' \in [Runs -> Run]
      /\ run'[r].at = run[r].at /\ run'[r].page = run[r].page
      /\ run'[r].offset = run[r].offset /\ run'[r].full = run[r].full
      /\ run[r].at # "idle" =>
           /\ run'[r].excused = run[r].excused \cup {x}
           /\ run'[r].departures = IF x \in audience THEN run[r].departures + 1
                                   ELSE run[r].departures
  BY MoveChanges DEF CampaignTypes
<1>2. keyRow' = keyRow /\ audience' = IF x \in audience THEN audience \ {x} ELSE audience \cup {x}
  BY DEF Move, keyVars
<1>3. \A u : /\ OnPage(r, u)' <=> OnPage(r, u)
             /\ Reached(u)' <=> Reached(u)
  BY <1>1, <1>2 DEF OnPage, Reached
<1>4. /\ x \in Nat /\ audience \subseteq Nat /\ IsFiniteSet(audience)
      /\ \A u \in audience : Rank(u, audience) \in Nat
  BY AudienceOrder, CampaignAssumption
<1>5. CASE run[r].at = "idle"
  <2>1. Lost(r)' = {}
    BY <1>1, <1>5 DEF Lost, Behind
  <2>2. run'[r].departures \in Nat
    BY <1>1 DEF Run
  <2> QED BY <2>1, <2>2, FS_EmptySet
<1>6. ASSUME run[r].at # "idle", NEW u \in Lost(r)'
      PROVE  /\ u \in audience \ run[r].excused /\ u # x
             /\ ~OnPage(r, u) /\ ~Reached(u) /\ Behind(r, u)'
  BY <1>1, <1>2, <1>3, <1>6 DEF Lost
<1>7. run[r].offset \in Nat /\ run[r].departures \in Nat /\ PageSize \in Nat
  BY CampaignAssumption DEF CampaignTypes, CampaignTypeOK, Run
<1>8. CASE run[r].at # "idle" /\ x \notin audience
  <2>1. ASSUME NEW u \in Lost(r)' PROVE u \in Lost(r)
    <3>1. u \in audience \ run[r].excused /\ ~OnPage(r, u) /\ ~Reached(u) /\ Behind(r, u)'
      BY <1>6, <1>8
    <3>2. Rank(u, audience) <= Rank(u, audience \cup {x})
      BY <1>4, <3>1, RankMoves
    <3>3. Rank(u, audience \cup {x}) \in Nat
      <4>1. audience \cup {x} \subseteq Nat /\ IsFiniteSet(audience \cup {x})
        BY <1>4, FS_AddElement
      <4> QED BY <3>1, <4>1, RankType
    <3>4. Rank(u, audience)' = Rank(u, audience \cup {x})
      BY <1>2, <1>8 DEF Rank
    <3>5. Behind(r, u)
      BY <1>1, <1>4, <1>7, <3>1, <3>2, <3>3, <3>4 DEF Behind
    <3> QED BY <3>1, <3>5 DEF Lost
  <2> QED BY <1>1, <1>8, <2>1, FewerLost
<1>9. CASE run[r].at # "idle" /\ x \in audience
  <2> DEFINE edge == IF run[r].at = "paging" THEN run[r].offset + 1
                     ELSE run[r].offset + PageSize + 1
  <2>1. ASSUME NEW u \in Lost(r)', u \notin Lost(r) PROVE u \in audience /\ Rank(u, audience) = edge
    <3>1. /\ u \in audience \ run[r].excused /\ u # x
          /\ ~OnPage(r, u) /\ ~Reached(u) /\ Behind(r, u)'
      BY <1>6, <1>9
    <3>2. ~Behind(r, u)
      BY <2>1, <3>1 DEF Lost
    <3>3. Rank(u, audience) <= Rank(u, audience \ {x}) + 1
      BY <1>4, <3>1, RankMoves
    <3>4. Rank(u, audience \ {x}) \in Nat
      <4>1. audience \ {x} \subseteq Nat /\ IsFiniteSet(audience \ {x})
        BY <1>4, FS_RemoveElement
      <4> QED BY <3>1, <4>1, RankType
    <3>5. Rank(u, audience)' = Rank(u, audience \ {x})
      BY <1>2, <1>9 DEF Rank
    <3> DEFINE bound == IF run[r].at = "paging" THEN run[r].offset
                        ELSE run[r].offset + PageSize
    <3>6. bound \in Nat /\ edge = bound + 1 /\ Rank(u, audience) \in Nat
      BY <1>4, <1>7, <3>1
    <3>7. ~(Rank(u, audience) <= bound) /\ Rank(u, audience)' <= bound
      BY <1>1, <1>9, <3>1, <3>2 DEF Behind, Working
    <3> HIDE DEF bound, edge
    <3> QED BY <3>1, <3>3, <3>4, <3>5, <3>6, <3>7
  <2>2. \E y : Lost(r)' \subseteq Lost(r) \cup {y}
    <3>1. CASE Lost(r)' \subseteq Lost(r)
      BY <3>1
    <3>2. CASE ~(Lost(r)' \subseteq Lost(r))
      <4>1. PICK y \in Lost(r)' : y \notin Lost(r)
        BY <3>2
      <4> HIDE DEF edge
      <4>2. \A u \in Lost(r)' : u \notin Lost(r) => u = y
        BY <1>4, <2>1, <4>1, RankOne
      <4> QED BY <4>2
    <3> QED BY <3>1, <3>2
  <2>3. PICK y : Lost(r)' \subseteq Lost(r) \cup {y}
    BY <2>2
  <2>4. IsFiniteSet(Lost(r))
    <3>1. Lost(r) \in SUBSET audience
      BY DEF Lost
    <3> QED BY <1>4, <3>1, FS_Subset
  <2>5. /\ IsFiniteSet(Lost(r) \cup {y}) /\ Cardinality(Lost(r)) \in Nat
        /\ Cardinality(Lost(r) \cup {y}) <= Cardinality(Lost(r)) + 1
    <3>1. /\ IsFiniteSet(Lost(r) \cup {y}) /\ Cardinality(Lost(r)) \in Nat
          /\ Cardinality(Lost(r) \cup {y}) =
               IF y \in Lost(r) THEN Cardinality(Lost(r)) ELSE Cardinality(Lost(r)) + 1
      BY <2>4, FS_AddElement, FS_CardinalityType
    <3> HIDE DEF edge
    <3> QED BY <3>1
  <2>6. /\ Cardinality(Lost(r)') <= Cardinality(Lost(r) \cup {y})
        /\ Cardinality(Lost(r)') \in Nat /\ Cardinality(Lost(r) \cup {y}) \in Nat
    BY <2>3, <2>5, FS_Subset, FS_CardinalityType
  <2>7. Cardinality(Lost(r)) <= run[r].departures /\ run'[r].departures = run[r].departures + 1
    BY <1>1, <1>9 DEF PageInv
  <2> QED BY <1>7, <2>5, <2>6, <2>7
<1> QED BY <1>5, <1>8, <1>9

LEMMA PageInvStep ==
  ASSUME CampaignTypes, SendInv, PageInv, [CampaignNext]_<<keyVars, campaignVars>>
  PROVE  PageInv'
<1>1. claim' = claim
  BY ClaimsStayFree
<1>2. \A u \in Recipients : Reached(u) => Reached(u)'
  BY ReachedStays
<1>3. ASSUME NEW q \in Runs, UNCHANGED audience, run'[q] = run[q]
      PROVE  Cardinality(Lost(q)') <= run'[q].departures
  <2>1. Lost(q)' \subseteq Lost(q)
    BY <1>2, <1>3, PageGoesOn
  <2> QED BY <1>3, <2>1, FewerLost
<1>4. ASSUME NEW r \in Runs, UNCHANGED audience, \A q \in Runs \ {r} : run'[q] = run[q],
             Cardinality(Lost(r)') <= run'[r].departures
      PROVE  PageInv'
  <2>1. \A q \in Runs : Cardinality(Lost(q)') <= run'[q].departures
    BY <1>3, <1>4
  <2> QED BY <1>1, <2>1 DEF PageInv
<1>5. CASE UNCHANGED <<keyVars, campaignVars>> \/ Switch
  <2>1. run' = run /\ audience' = audience
    BY <1>5 DEF campaignVars, Switch
  <2>2. \A q \in Runs : Cardinality(Lost(q)') <= run'[q].departures
    BY <1>3, <2>1
  <2> QED BY <1>1, <2>2 DEF PageInv
<1>6. ASSUME NEW u \in Recipients, Move(u) PROVE PageInv'
  <2>1. \A q \in Runs : Cardinality(Lost(q)') <= run'[q].departures
    BY <1>6, MoveLosesOne
  <2> QED BY <1>1, <2>1 DEF PageInv
<1>7. ASSUME NEW r \in Runs, StartRun(r) \/ CrashRun(r) PROVE PageInv'
  <2>1. \A q \in Runs \ {r} : run'[q] = run[q]
    BY <1>7, ResetChanges DEF CampaignTypes
  <2>2. UNCHANGED audience
    BY <1>7 DEF StartRun, CrashRun
  <2> QED BY <1>4, <1>7, <2>1, <2>2, ResetLosesNone
<1>8. ASSUME NEW r \in Runs, FetchPage(r) \/ EndPage(r) PROVE PageInv'
  <2>1. /\ run'[r].departures = run[r].departures /\ \A q \in Runs \ {r} : run'[q] = run[q]
        /\ UNCHANGED audience
    BY <1>8, FetchChanges, EndChanges DEF CampaignTypes, FetchPage, EndPage
  <2>2. Lost(r)' \subseteq Lost(r)
    BY <1>8, PageFetched, PageEnded
  <2> QED BY <1>4, <2>1, <2>2, FewerLost
<1>9. ASSUME NEW r \in Runs, Claims(r) \/ Within(r) PROVE PageInv'
  <2>1. /\ {run[r].at, run'[r].at} \subseteq {"choosing"} \cup Working
        /\ run'[r].excused = run[r].excused /\ run'[r].departures = run[r].departures
        /\ run'[r].page = run[r].page
        /\ run'[r].offset = run[r].offset /\ run'[r].full = run[r].full
        /\ \A q \in Runs \ {r} : run'[q] = run[q]
        /\ UNCHANGED audience
    <3>1. CASE Claims(r)
      BY <3>1, ClaimChanges DEF Working
    <3>2. CASE Within(r)
      BY <3>2, WithinGoesOn DEF SendGoesOn
    <3> QED BY <1>9, <3>1, <3>2
  <2>2. Lost(r)' \subseteq Lost(r)
    BY <1>2, <2>1, PageGoesOn
  <2> QED BY <1>4, <2>1, <2>2, FewerLost
<1>10. ASSUME NEW r \in Runs, Skips(r) \/ Ends(r) \/ LeaveSend(r) \/ MissSend(r) PROVE PageInv'
  <2>1. /\ keyRow'[SendKey[Addressee(r)]] # "none" \/ Addressee(r) \in run'[r].excused
        /\ run[r].at \in {"choosing"} \cup Working /\ run'[r].at = "choosing"
        /\ run[r].page # <<>> /\ run'[r].page = Tail(run[r].page)
        /\ run[r].excused \subseteq run'[r].excused
        /\ run'[r].departures = run[r].departures
        /\ run'[r].offset = run[r].offset /\ run'[r].full = run[r].full
        /\ \A q \in Runs \ {r} : run'[q] = run[q]
        /\ UNCHANGED audience
    <3>1. CASE Skips(r)
      <4>1. keyRow'[SendKey[Addressee(r)]] # "none"
        BY <3>1, SkipChanges DEF keyVars, PageInv
      <4> QED BY <3>1, <4>1, SkipChanges
    <3>2. CASE Ends(r)
      <4>1. keyRow'[SendKey[Addressee(r)]] # "none"
        BY <3>2, EndSendChanges
      <4> QED BY <3>2, <4>1, EndSendChanges DEF WorksOn
    <3>3. CASE LeaveSend(r)
      <4>1. keyRow'[SendKey[Addressee(r)]] # "none"
        BY <3>3, LeaveChanges DEF keyVars, SendInv, SendsInOrder
      <4> QED BY <3>3, <4>1, LeaveChanges DEF WorksOn
    <3>4. CASE MissSend(r)
      BY <3>4, MissChanges DEF CampaignTypes, MissSend
    <3> QED BY <1>10, <3>1, <3>2, <3>3, <3>4
  <2>2. Lost(r)' \subseteq Lost(r)
    BY <1>2, <2>1, UserGoneThrough
  <2> QED BY <1>4, <2>1, <2>2, FewerLost
<1> QED BY <1>5, <1>6, <1>7, <1>8, <1>9, <1>10 DEF CampaignNext, Within, Ends, Claims, Skips

LEMMA PageInvInit == CampaignInit => PageInv
<1> SUFFICES ASSUME CampaignInit PROVE PageInv
  OBVIOUS
<1>1. \A r \in Runs : run[r] = IdleRun
  BY DEF CampaignInit
<1>2. \A r \in Runs : Lost(r) = {}
  BY <1>1 DEF Lost, Behind, IdleRun
<1>3. ASSUME NEW r \in Runs PROVE Cardinality(Lost(r)) <= run[r].departures
  <2>1. Lost(r) = {} /\ run[r].departures = 0
    BY <1>1, <1>2 DEF IdleRun
  <2> QED BY <2>1, FS_EmptySet
<1>4. \A s \in Sessions : claim[s] = NoKey
  BY DEF CampaignInit, KeysInit
<1> QED BY <1>3, <1>4 DEF PageInv

\* A dispatch that came to its end has begun a send to every user who stayed in the
\* audience, apart from those whose send threw before it had a key and from one user
\* for each who left meanwhile: the pages of LIMIT and OFFSET slip by no more.
THEOREM EveryoneReached == CampaignSpec => []RunReachesAll
<1>1. CampaignInit => CampaignTypes /\ SendInv /\ PageInv
  BY SendInvInit, PageInvInit
<1>2. CampaignTypes /\ SendInv /\ PageInv /\ [CampaignNext]_<<keyVars, campaignVars>>
        => (CampaignTypes /\ SendInv /\ PageInv)'
  BY PagesHeldStep, SendInvStep, PageInvStep DEF CampaignTypes
<1>3. PageInv => RunReachesAll
  <2>1. ASSUME NEW r \in Runs, run[r].at = "finished" PROVE PassedOver(r) = Lost(r)
    BY <2>1 DEF PassedOver, Lost, Behind, OnPage, Reached, Working
  <2> QED BY <2>1 DEF PageInv, RunReachesAll
<1> QED BY <1>1, <1>2, <1>3, PTL DEF CampaignSpec

---------------------------------------------------------------------------
(* Sums over finite sets.  MapThenSumSet is a function that is recursive   *)
(* on sets, and no theorem of the library speaks of it; what is needed is  *)
(* proved from a smallest counterexample (FS_StrictSubsetOrdering...).     *)

\* A set of subsets of a finite set has a smallest member, if it has any.
LEMMA SmallestSubset ==
  ASSUME NEW S, IsFiniteSet(S), NEW B, B \subseteq SUBSET S, B # {}
  PROVE  \E b \in B : \A c \in B : c \subseteq b => c = b
<1>1. IsWellFoundedOn(StrictSubsetOrdering(S), FiniteSubsetsOf(S))
  BY FS_StrictSubsetOrderingWellFounded
<1>2. B \subseteq FiniteSubsetsOf(S)
  BY FS_FiniteSubsetsOfFinite
<1>3. \E b \in B : \A c \in B : <<c, b>> \notin StrictSubsetOrdering(S)
  BY <1>1, <1>2, WFMin
<1>4. \A b, c \in B : c \subseteq b /\ c # b => <<c, b>> \in StrictSubsetOrdering(S)
  BY DEF StrictSubsetOrdering
<1> QED BY <1>3, <1>4

\* The member that the fold takes first.
Pick(t) == CHOOSE x \in t : TRUE

\* g adds up f over every subset of s.
SumsUp(g, f, s) ==
  g = [t \in SUBSET s |-> IF t = {} THEN 0 ELSE LET x == Pick(t) IN f[x] + g[t \ {x}]]

Total(f, s) == (CHOOSE g : SumsUp(g, f, s))[s]

LEMMA SumIsTotal == ASSUME NEW s PROVE SumOver(s) = Total(allocation, s)
BY Zenon DEF SumOver, MapThenSumSet, MapThenFoldSet, SumsUp, Total, Pick

LEMMA PickMember == ASSUME NEW t, t # {} PROVE Pick(t) \in t
BY DEF Pick

\* There is one way to add up.
LEMMA SumsAgree ==
  ASSUME NEW f, NEW s, IsFiniteSet(s), NEW u, NEW v, s \subseteq u, s \subseteq v,
         NEW g, NEW h, SumsUp(g, f, u), SumsUp(h, f, v)
  PROVE  g[s] = h[s]
<1> DEFINE B == {t \in SUBSET s : g[t] # h[t]}
<1>1. SUFFICES ASSUME B # {} PROVE FALSE
  OBVIOUS
<1>2. PICK t \in B : \A c \in B : c \subseteq t => c = t
  <2>1. B \subseteq SUBSET s
    OBVIOUS
  <2> HIDE DEF B
  <2> QED BY <1>1, <2>1, SmallestSubset
<1>3. t \in SUBSET u /\ t \in SUBSET v
  OBVIOUS
<1>4. /\ g[t] = IF t = {} THEN 0 ELSE f[Pick(t)] + g[t \ {Pick(t)}]
      /\ h[t] = IF t = {} THEN 0 ELSE f[Pick(t)] + h[t \ {Pick(t)}]
  BY <1>3 DEF SumsUp
<1>5. t # {} => t \ {Pick(t)} \notin B
  BY <1>2, PickMember
<1> QED BY <1>4, <1>5

\* A finite set can be added up.
LEMMA SumExists ==
  ASSUME NEW f, NEW s, IsFiniteSet(s)
  PROVE  \E g : SumsUp(g, f, s)
<1> DEFINE B == {t \in SUBSET s : ~ \E g : SumsUp(g, f, t)}
<1>1. SUFFICES ASSUME B # {} PROVE FALSE
  OBVIOUS
<1>2. PICK t \in B : \A c \in B : c \subseteq t => c = t
  <2>1. B \subseteq SUBSET s
    OBVIOUS
  <2> HIDE DEF B
  <2> QED BY <1>1, <2>1, SmallestSubset
<1> DEFINE G(u) == CHOOSE g : SumsUp(g, f, u)
           val(u) == IF u = {} THEN 0 ELSE f[Pick(u)] + G(u \ {Pick(u)})[u \ {Pick(u)}]
           g == [u \in SUBSET t |-> val(u)]
<1> HIDE DEF B
<1>3. \A u \in SUBSET t : u # t => SumsUp(G(u), f, u)
  <2>1. \A u \in SUBSET t : u # t => \E h : SumsUp(h, f, u)
    BY <1>2 DEF B
  <2> QED BY <2>1
<1>4. \A u \in SUBSET t : u # {} =>
        u \ {Pick(u)} \in SUBSET t /\ u \ {Pick(u)} # t /\ IsFiniteSet(u)
  <2>1. t \in SUBSET s
    BY DEF B
  <2> QED BY <2>1, PickMember, FS_Subset
<1>5. \A w \in SUBSET t : w # t => G(w)[w] = val(w)
  <2> SUFFICES ASSUME NEW w \in SUBSET t, w # t PROVE G(w)[w] = val(w)
    OBVIOUS
  <2> HIDE DEF G
  <2>1. G(w)[w] = IF w = {} THEN 0 ELSE f[Pick(w)] + G(w)[w \ {Pick(w)}]
    BY <1>3 DEF SumsUp
  <2>2. CASE w = {}
    BY <2>1, <2>2
  <2>3. CASE w # {}
    <3> DEFINE r == w \ {Pick(w)}
    <3>1. r \subseteq w /\ r \in SUBSET t /\ r # t /\ IsFiniteSet(r)
      BY <1>4, <2>3, FS_Subset
    <3>2. SumsUp(G(w), f, w) /\ SumsUp(G(r), f, r)
      BY <1>3, <3>1
    <3>3. G(w)[r] = G(r)[r]
      <4>1. r \subseteq r
        OBVIOUS
      <4> HIDE DEF r
      <4> QED BY <3>1, <3>2, <4>1, SumsAgree
    <3> QED BY <2>1, <2>3, <3>3
  <2> QED BY <2>2, <2>3
<1>6. SumsUp(g, f, t)
  <2>1. \A u \in SUBSET t :
          val(u) = IF u = {} THEN 0 ELSE LET x == Pick(u) IN f[x] + g[u \ {x}]
    <3> TAKE u \in SUBSET t
    <3> DEFINE r == u \ {Pick(u)}
    <3>1. CASE u = {}
      BY <3>1
    <3>2. CASE u # {}
      <4>1. r \in SUBSET t /\ r # t
        BY <1>4, <3>2
      <4>2. G(r)[r] = val(r)
        <5> HIDE DEF G, r, val
        <5> QED BY <1>5, <4>1
      <4>3. g[r] = val(r)
        <5> HIDE DEF G, r, val
        <5> QED BY <4>1
      <4>4. val(u) = f[Pick(u)] + G(r)[r]
        BY <3>2
      <4> HIDE DEF G, val, g
      <4> QED BY <3>2, <4>2, <4>3, <4>4
    <3> QED BY <3>1, <3>2
  <2> HIDE DEF val
  <2> QED BY <2>1 DEF SumsUp
<1> QED BY <1>2, <1>6 DEF B

\* The total of a set, by the member taken first.
LEMMA TotalPicked ==
  ASSUME NEW f, NEW s, IsFiniteSet(s)
  PROVE  Total(f, s) = IF s = {} THEN 0 ELSE f[Pick(s)] + Total(f, s \ {Pick(s)})
<1> DEFINE G(u) == CHOOSE g : SumsUp(g, f, u)
<1>1. \A u : IsFiniteSet(u) => SumsUp(G(u), f, u)
  BY SumExists
<1> HIDE DEF G
<1>2. G(s)[s] = IF s = {} THEN 0 ELSE f[Pick(s)] + G(s)[s \ {Pick(s)}]
  BY <1>1 DEF SumsUp
<1>3. s # {} => G(s)[s \ {Pick(s)}] = G(s \ {Pick(s)})[s \ {Pick(s)}]
  <2> DEFINE r == s \ {Pick(s)}
  <2>1. r \subseteq s /\ IsFiniteSet(r)
    BY FS_Subset
  <2>2. SumsUp(G(s), f, s) /\ SumsUp(G(r), f, r)
    BY <1>1, <2>1
  <2>3. r \subseteq s /\ r \subseteq r
    BY <2>1
  <2>4. G(s)[r] = G(r)[r]
    <3> HIDE DEF r
    <3> QED BY <2>1, <2>2, <2>3, SumsAgree
  <2> QED BY <2>4
<1>4. \A u : Total(f, u) = G(u)[u]
  BY DEF Total, G
<1> QED BY <1>2, <1>3, <1>4


\* Functions that agree on a set have the same total on it.
LEMMA TotalAgrees ==
  ASSUME NEW f, NEW g, NEW s, IsFiniteSet(s), \A x \in s : f[x] = g[x]
  PROVE  Total(f, s) = Total(g, s)
<1> DEFINE B == {t \in SUBSET s : Total(f, t) # Total(g, t)}
<1>1. SUFFICES ASSUME B # {} PROVE FALSE
  BY DEF B
<1>2. PICK t \in B : \A c \in B : c \subseteq t => c = t
  <2>1. B \subseteq SUBSET s
    OBVIOUS
  <2> HIDE DEF B
  <2> QED BY <1>1, <2>1, SmallestSubset
<1>3. IsFiniteSet(t)
  BY FS_Subset
<1>4. /\ Total(f, t) = IF t = {} THEN 0 ELSE f[Pick(t)] + Total(f, t \ {Pick(t)})
      /\ Total(g, t) = IF t = {} THEN 0 ELSE g[Pick(t)] + Total(g, t \ {Pick(t)})
  BY <1>3, TotalPicked
<1>5. t # {} => Pick(t) \in t /\ t \ {Pick(t)} \notin B
  BY <1>2, PickMember
<1> QED BY <1>4, <1>5

LEMMA TotalType ==
  ASSUME NEW f, NEW s, IsFiniteSet(s), \A x \in s : f[x] \in Nat
  PROVE  Total(f, s) \in Nat
<1> DEFINE B == {t \in SUBSET s : Total(f, t) \notin Nat}
<1>1. SUFFICES ASSUME B # {} PROVE FALSE
  BY DEF B
<1>2. PICK t \in B : \A c \in B : c \subseteq t => c = t
  <2>1. B \subseteq SUBSET s
    OBVIOUS
  <2> HIDE DEF B
  <2> QED BY <1>1, <2>1, SmallestSubset
<1>3. IsFiniteSet(t)
  BY FS_Subset
<1>4. Total(f, t) = IF t = {} THEN 0 ELSE f[Pick(t)] + Total(f, t \ {Pick(t)})
  BY <1>3, TotalPicked
<1>5. t # {} => Pick(t) \in t /\ t \ {Pick(t)} \notin B
  BY <1>2, PickMember
<1> QED BY <1>4, <1>5

\* Any member may be taken off a total, not only the one the fold picks.
LEMMA TotalWithout ==
  ASSUME NEW f, NEW s, IsFiniteSet(s), \A y \in s : f[y] \in Nat, NEW x \in s
  PROVE  Total(f, s) = f[x] + Total(f, s \ {x})
<1> DEFINE Splits(t) == \A y \in t : Total(f, t) = f[y] + Total(f, t \ {y})
           B == {t \in SUBSET s : ~Splits(t)}
<1>1. SUFFICES ASSUME B # {} PROVE FALSE
  BY DEF B
<1>2. PICK t \in B : \A c \in B : c \subseteq t => c = t
  <2>1. B \subseteq SUBSET s
    OBVIOUS
  <2> HIDE DEF B
  <2> QED BY <1>1, <2>1, SmallestSubset
<1>3. PICK y \in t : Total(f, t) # f[y] + Total(f, t \ {y})
  OBVIOUS
<1> DEFINE c == Pick(t)
<1>4. c \in t /\ IsFiniteSet(t) /\ t \in SUBSET s
  BY PickMember, FS_Subset
<1> HIDE DEF c
<1>5. Total(f, t) = f[c] + Total(f, t \ {c})
  BY <1>4, TotalPicked DEF c
<1>6. y # c
  BY <1>3, <1>5
<1>7. Splits(t \ {c}) /\ Splits(t \ {y})
  BY <1>2, <1>4
<1>8. Total(f, t \ {c}) = f[y] + Total(f, (t \ {c}) \ {y})
  BY <1>6, <1>7
<1>9. Total(f, t \ {y}) = f[c] + Total(f, (t \ {y}) \ {c})
  BY <1>4, <1>6, <1>7
<1>10. (t \ {c}) \ {y} = (t \ {y}) \ {c}
  OBVIOUS
<1>11. Total(f, (t \ {c}) \ {y}) \in Nat /\ f[c] \in Nat /\ f[y] \in Nat
  <2>1. IsFiniteSet((t \ {c}) \ {y})
    BY <1>4, FS_Subset
  <2>2. \A z \in (t \ {c}) \ {y} : f[z] \in Nat
    BY <1>4
  <2> QED BY <1>4, <2>1, <2>2, TotalType
<1> QED BY <1>3, <1>5, <1>8, <1>9, <1>10, <1>11


---------------------------------------------------------------------------
(* Allocations of variants.                                                *)

\* The sum an editor has read under the lock is still that of the others.
LockedSums ==
  \A e \in Editors :
    editor[e].at = "locked" =>
      /\ editor[e].others = Total(allocation, Existing \ {editor[e].variant})
      /\ \A f \in Editors : editor[f].at = "locked" => f = e

\* The shares of the variants that exist fit, and so do those of the others that an
\* editor under the lock has added up.
VariantInv ==
  /\ VariantTypeOK
  /\ \A e \in Editors : editor[e].at # "idle" => editor[e].variant \in Variants
  /\ LockedSums
  /\ Total(allocation, Existing) <= 100

\* Shares and their totals are numbers.
LEMMA ExistingTotal ==
  ASSUME VariantTypeOK, NEW s \in SUBSET Existing
  PROVE  /\ IsFiniteSet(s)
         /\ \A v \in s : allocation[v] \in Nat
         /\ Total(allocation, s) \in Nat
<1>1. IsFiniteSet(s)
  BY VariantAssumption, FS_Subset DEF Existing
<1>2. \A v \in s : allocation[v] \in Nat
  BY DEF Existing, VariantTypeOK
<1> QED BY <1>1, <1>2, TotalType

\* Whatever variant an editor is about, the others fit.
LEMMA OthersFit ==
  ASSUME VariantInv, NEW v
  PROVE  Total(allocation, Existing \ {v}) \in 0 .. 100
<1>1. CASE v \in Existing
  <2>1. Total(allocation, Existing) = allocation[v] + Total(allocation, Existing \ {v})
    BY <1>1, ExistingTotal, TotalWithout DEF VariantInv
  <2>2. allocation[v] \in Nat /\ Total(allocation, Existing \ {v}) \in Nat
    BY <1>1, ExistingTotal DEF VariantInv
  <2> QED BY <2>1, <2>2 DEF VariantInv
<1>2. CASE v \notin Existing
  <2>1. Existing \ {v} = Existing
    BY <1>2
  <2> QED BY <2>1, ExistingTotal DEF VariantInv
<1> QED BY <1>1, <1>2

LEMMA VariantInvInit == VariantInit => VariantInv
<1> SUFFICES ASSUME VariantInit PROVE VariantInv
  OBVIOUS
<1>1. Existing = {}
  BY DEF VariantInit, Existing
<1>2. Total(allocation, {}) = 0
  BY FS_EmptySet, TotalPicked
<1>3. VariantTypeOK
  BY VariantAssumption DEF VariantInit, VariantTypeOK, IdleEditor, Editor
<1> QED BY <1>1, <1>2, <1>3 DEF VariantInit, VariantInv, LockedSums, IdleEditor

LEMMA BeginEditStep ==
  ASSUME VariantInv, NEW e \in Editors, NEW v \in Variants, NEW share \in Shares,
         BeginEdit(e, v, share)
  PROVE  VariantInv'
<1> USE DEF BeginEdit, VariantInv, VariantTypeOK
<1>1. VariantTypeOK'
  BY VariantAssumption DEF Editor
<1>2. Existing' = Existing
  BY DEF Existing
<1>3. LockedSums'
  BY <1>2 DEF LockedSums
<1> QED BY <1>1, <1>2, <1>3

LEMMA LockCampaignStep ==
  ASSUME VariantInv, NEW e \in Editors, LockCampaign(e)
  PROVE  VariantInv'
<1> DEFINE v == editor[e].variant
           s == Existing \ {v}
<1>1. editor' = [editor EXCEPT ![e].at = "locked", ![e].others = Total(allocation, s)]
  BY SumIsTotal DEF LockCampaign
<1>2. Total(allocation, s) \in 0 .. 100
  BY OthersFit
<1>3. editor[e] \in Editor /\ editor[e].at = "begun" /\ allocation' = allocation
  BY DEF LockCampaign, VariantInv, VariantTypeOK
<1>4. editor' \in [Editors -> Editor] /\ VariantTypeOK'
  <2>1. [editor[e] EXCEPT !.at = "locked", !.others = Total(allocation, s)] \in Editor
    BY <1>2, <1>3 DEF Editor
  <2>2. editor' = [editor EXCEPT ![e] =
                     [editor[e] EXCEPT !.at = "locked", !.others = Total(allocation, s)]]
    BY <1>1, <1>2, <1>3 DEF VariantInv, VariantTypeOK, Editor
  <2> QED BY <1>3, <2>1, <2>2 DEF VariantInv, VariantTypeOK
<1>5. /\ editor'[e].at = "locked" /\ editor'[e].variant = v
      /\ editor'[e].others = Total(allocation, s)
      /\ \A f \in Editors \ {e} : editor'[f] = editor[f]
  BY <1>1, <1>3 DEF VariantInv, VariantTypeOK, Editor
<1>6. Existing' = Existing
  BY <1>3 DEF Existing
<1>7. LockedSums'
  <2>1. \A f \in Editors \ {e} : editor'[f].at # "locked"
    BY <1>5 DEF LockCampaign
  <2>2. Existing' \ {editor'[e].variant} = s
    BY <1>5, <1>6
  <2> QED BY <1>3, <1>5, <2>1, <2>2 DEF LockedSums
<1> QED BY <1>3, <1>4, <1>5, <1>6, <1>7 DEF VariantInv

\* Only the holder of the lock writes, so the sum it has read is still right.
LEMMA WriteShareStep ==
  ASSUME VariantInv, NEW e \in Editors, WriteShare(e)
  PROVE  VariantInv'
<1> DEFINE v == editor[e].variant
           share == editor[e].share
           s == Existing \ {v}
<1>1. /\ editor[e] \in Editor /\ editor[e].at = "locked" /\ v \in Variants
      /\ editor[e].others = Total(allocation, s)
      /\ \A f \in Editors \ {e} : editor[f].at # "locked"
  BY DEF WriteShare, VariantInv, VariantTypeOK, LockedSums
<1>2. share \in 0 .. 100
  <2>1. share \in Shares \cup {0}
    BY <1>1 DEF Editor
  <2>2. \A n \in Shares \cup {0} : n \in 0 .. 100
    BY VariantAssumption
  <2> HIDE DEF share
  <2> QED BY <2>1, <2>2
<1>3. editor' = [editor EXCEPT ![e] = IdleEditor] /\ IdleEditor \in Editor
  BY VariantAssumption DEF WriteShare, IdleEditor, Editor
<1>4. LockedSums' /\ \A f \in Editors : editor'[f].at # "idle" => editor'[f].variant \in Variants
  BY <1>1, <1>3 DEF LockedSums, IdleEditor, VariantInv, VariantTypeOK
<1>5. CASE allocation' = allocation
  <2>1. Existing' = Existing
    BY <1>5 DEF Existing
  <2> QED BY <1>3, <1>4, <1>5, <2>1 DEF VariantInv, VariantTypeOK
<1>6. CASE Total(allocation, s) + share <= 100 /\ allocation' = [allocation EXCEPT ![v] = share]
  <2>1. VariantTypeOK'
    BY <1>1, <1>2, <1>3, <1>6 DEF VariantInv, VariantTypeOK
  <2>2. Existing' = s \cup {v}
    BY <1>1, <1>2, <1>6, VariantAssumption DEF Existing, VariantInv, VariantTypeOK
  <2>3. IsFiniteSet(s) /\ IsFiniteSet(Existing') /\ \A x \in Existing' : allocation'[x] \in Nat
    <3>1. IsFiniteSet(s) /\ \A x \in s : allocation[x] \in Nat
      BY ExistingTotal DEF VariantInv
    <3>2. \A x \in s \cup {v} : allocation'[x] \in Nat
      BY <1>1, <1>2, <1>6, <3>1 DEF VariantInv, VariantTypeOK, Existing
    <3> QED BY <2>2, <3>1, <3>2, FS_AddElement
  <2>4. Total(allocation', Existing') = allocation'[v] + Total(allocation', Existing' \ {v})
    BY <2>2, <2>3, TotalWithout
  <2>5. Total(allocation', s) = Total(allocation, s)
    BY <1>6, <2>3, TotalAgrees DEF Existing, VariantInv, VariantTypeOK
  <2>6. Existing' \ {v} = s /\ allocation'[v] = share
    BY <1>1, <1>6, <2>2 DEF VariantInv, VariantTypeOK
  <2>7. Total(allocation', Existing') <= 100
    <3>1. Total(allocation, s) \in 0 .. 100
      BY OthersFit
    <3>2. Total(allocation', Existing') = share + Total(allocation, s)
      BY <2>4, <2>5, <2>6
    <3>3. Total(allocation, s) + share <= 100
      BY <1>6
    <3> HIDE DEF share, s
    <3> QED BY <1>2, <3>1, <3>2, <3>3
  <2> QED BY <1>4, <2>1, <2>7 DEF VariantInv
<1> QED BY <1>1, <1>5, <1>6 DEF WriteShare

LEMMA AbortEditStep ==
  ASSUME VariantInv, NEW e \in Editors, AbortEdit(e)
  PROVE  VariantInv'
<1>1. editor' = [editor EXCEPT ![e] = IdleEditor] /\ IdleEditor \in Editor
  BY VariantAssumption DEF AbortEdit, IdleEditor, Editor
<1>2. Existing' = Existing /\ allocation' = allocation
  BY DEF AbortEdit, Existing
<1>3. LockedSums'
  BY <1>1, <1>2 DEF LockedSums, IdleEditor, VariantInv, VariantTypeOK
<1> QED BY <1>1, <1>2, <1>3 DEF VariantInv, VariantTypeOK, IdleEditor

LEMMA VariantInvStep == VariantInv /\ [VariantNext]_variantVars => VariantInv'
<1>1. VariantInv /\ UNCHANGED variantVars => VariantInv'
  BY DEF VariantInv, VariantTypeOK, LockedSums, Existing, variantVars
<1> QED BY <1>1, BeginEditStep, LockCampaignStep, WriteShareStep, AbortEditStep
        DEF VariantNext

\* However many editors create variants and change their shares at once, and
\* however often one of them fails, the shares of a campaign never add up to more
\* than the whole traffic: the sum is read and written under the campaign's lock.
THEOREM SharesFit == VariantSpec => []AllocationsFit
<1>1. VariantInv => AllocationsFit
  BY SumIsTotal DEF VariantInv, AllocationsFit
<1> QED BY <1>1, VariantInvInit, VariantInvStep, PTL DEF VariantSpec
============================================================================
