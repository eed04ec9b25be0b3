-------------------------- MODULE PaginationProofs --------------------------
(***************************************************************************)
(* Theorems about Pagination for every width of the integers and every     *)
(* limit, maximum and first page that an endpoint asks for, checked by     *)
(* TLAPS.                                                                  *)
(***************************************************************************)
EXTENDS Pagination, TLAPS

-----------------------------------------------------------------------------
(* Queries                                                                 *)

Names == {"position", "limit", "filter"}

LEMMA QueryType ==
    ASSUME NEW q \in Query
    PROVE  DOMAIN q \subseteq Names /\ \A x \in DOMAIN q : q[x] \in Ints
  <1>1. PICK names \in SUBSET {"position", "limit", "filter"} : q \in [names -> Ints]
    BY DEF Query
  <1> QED BY <1>1 DEF Names

LEMMA IsQuery ==
    ASSUME NEW names \in SUBSET Names, NEW q \in [names -> Ints] PROVE q \in Query
  BY DEF Query, Names

\* A link has the position and the limit that the helper gave it, and what the
\* query had besides.
LEMMA MergeBoth ==
    ASSUME NEW q \in Query, NEW position \in Ints, NEW limit \in Ints
    PROVE  LET link == Merge(q, [position |-> position, limit |-> limit]) IN
             /\ link \in Query
             /\ DOMAIN link = DOMAIN q \cup {"position", "limit"}
             /\ link["position"] = position /\ link["limit"] = limit
             /\ "filter" \in DOMAIN q => link["filter"] = q["filter"]
  <1> DEFINE r == [position |-> position, limit |-> limit]
             link == Merge(q, r)
  <1>1. DOMAIN r = {"position", "limit"} /\ r["position"] = position /\ r["limit"] = limit
    OBVIOUS
  <1>2. DOMAIN q \subseteq Names /\ \A x \in DOMAIN q : q[x] \in Ints
    BY QueryType
  <1> HIDE DEF r
  <1> DEFINE names == DOMAIN q \cup {"position", "limit"}
  <1>3. /\ link \in [names -> Ints]
        /\ link["position"] = position /\ link["limit"] = limit
        /\ "filter" \in DOMAIN q => link["filter"] = q["filter"]
    BY <1>1, <1>2 DEF Merge
  <1>4. names \in SUBSET Names
    BY <1>2 DEF Names
  <1> HIDE DEF link
  <1>5. link \in Query
    BY <1>3, <1>4, IsQuery
  <1>6. DOMAIN link = DOMAIN q \cup {"position", "limit"}
    BY <1>3
  <1> QED BY <1>3, <1>5, <1>6 DEF link, r

LEMMA MergeLimit ==
    ASSUME NEW q \in Query, NEW limit \in Ints
    PROVE  LET link == Merge(q, [limit |-> limit]) IN
             /\ link \in Query
             /\ "limit" \in DOMAIN link /\ link["limit"] = limit
             /\ "filter" \in DOMAIN q =>
                  "filter" \in DOMAIN link /\ link["filter"] = q["filter"]
  <1> DEFINE r == [limit |-> limit]
             link == Merge(q, r)
             names == DOMAIN q \cup {"limit"}
  <1>1. DOMAIN r = {"limit"} /\ r["limit"] = limit
    OBVIOUS
  <1>2. DOMAIN q \subseteq Names /\ \A x \in DOMAIN q : q[x] \in Ints
    BY QueryType
  <1> HIDE DEF r
  <1>3. /\ link \in [names -> Ints] /\ link["limit"] = limit
        /\ "filter" \in DOMAIN q => link["filter"] = q["filter"]
    BY <1>1, <1>2 DEF Merge
  <1>4. names \in SUBSET Names
    BY <1>2 DEF Names
  <1> HIDE DEF link
  <1>5. link \in Query
    BY <1>3, <1>4, IsQuery
  <1> QED BY <1>3, <1>5 DEF link, r

-----------------------------------------------------------------------------
(* What the helper computes                                                *)

LEMMA HelperParts ==
    ASSUME NEW h \in Helpers
    PROVE  /\ h.max \in 0 .. MaxInt /\ h.default \in 0 .. MaxInt /\ h.first \in 0 .. MaxInt
           /\ MaxInt \in Nat
  <1>1. h.max \in {NoMaximum} \cup Maxima /\ h.default \in Defaults /\ h.first \in FirstPages
    BY DEF Helpers, Helper
  <1>2. MaxInt \in Nat /\ NoMaximum \in 0 .. MaxInt
    BY ConstantsAssumption DEF ConstantsAssumption, NoMaximum
  <1> QED BY <1>1, <1>2, ConstantsAssumption DEF ConstantsAssumption

LEMMA Computed ==
    ASSUME NEW h \in Helpers, NEW q \in Query
    PROVE  /\ AskedLimit(h, q) \in Ints
           /\ Limit(h, q) \in Ints
           /\ Page(h, q) \in h.first .. MaxInt
           /\ Page(h, q) \in Ints /\ Cast(Page(h, q) + 1) \in Ints
           /\ HasPrevious(h, q) => Page(h, q) - 1 \in Ints
  <1>1. \A name, default : default \in Ints => ParamOr(q, name, default) \in Ints
    BY QueryType DEF ParamOr
  <1>2. h.default \in Ints /\ h.first \in Ints /\ h.max \in Ints /\ MaxInt \in Nat
        /\ h.first \in Nat
    BY HelperParts DEF Ints
  <1>3. AskedLimit(h, q) \in Ints /\ ParamOr(q, "position", h.first) \in Ints
    BY <1>1, <1>2 DEF AskedLimit
  <1>4. Limit(h, q) \in Ints
    BY <1>2, <1>3 DEF Limit
  <1>5. Page(h, q) \in h.first .. MaxInt
    BY <1>2, <1>3 DEF Page, Ints
  <1> QED BY <1>2, <1>3, <1>4, <1>5 DEF Cast, Ints, HasPrevious

\* A link for the query q of h.
Links(h, q, link) ==
    /\ link \in Query
    /\ "limit" \in DOMAIN link /\ link["limit"] = Limit(h, q)
    /\ "filter" \in DOMAIN q =>
         "filter" \in DOMAIN link /\ link["filter"] = q["filter"]

LEMMA LinkAt ==
    ASSUME NEW h \in Helpers, NEW q \in Query, NEW position \in Ints
    PROVE  LET link == Merge(q, [position |-> position, limit |-> Limit(h, q)]) IN
             /\ Links(h, q, link)
             /\ "position" \in DOMAIN link /\ link["position"] = position
  <1>1. PICK limit \in Ints : limit = Limit(h, q)
    BY Computed
  <1> DEFINE link == Merge(q, [position |-> position, limit |-> limit])
  <1>2. /\ link \in Query
        /\ DOMAIN link = DOMAIN q \cup {"position", "limit"}
        /\ link["position"] = position /\ link["limit"] = limit
        /\ "filter" \in DOMAIN q => link["filter"] = q["filter"]
    BY MergeBoth
  <1> HIDE DEF link
  <1>3. Links(h, q, link) /\ "position" \in DOMAIN link
    BY <1>1, <1>2 DEF Links
  <1> QED BY <1>1, <1>2, <1>3 DEF link

\* The page and the limit of a link.
LEMMA LinkComputed ==
    ASSUME NEW h \in Helpers, NEW q \in Query, NEW link, Links(h, q, link)
    PROVE  /\ Limit(h, link) = Limit(h, q)
           /\ ~Refused(h, q) => ~Refused(h, link)
  <1>1. AskedLimit(h, link) = Limit(h, q)
    BY DEF Links, AskedLimit, ParamOr
  <1>2. h.max \in Int /\ AskedLimit(h, q) \in Int
    BY HelperParts, Computed DEF Ints
  <1> QED BY <1>1, <1>2 DEF Limit, Refused

LEMMA NextLinkIs ==
    ASSUME NEW h \in Helpers, NEW q \in Query
    PROVE  /\ Links(h, q, NextLink(h, q))
           /\ "position" \in DOMAIN NextLink(h, q)
           /\ NextLink(h, q)["position"] = Cast(Page(h, q) + 1)
  BY Computed, LinkAt DEF NextLink

LEMMA PreviousLinkIs ==
    ASSUME NEW h \in Helpers, NEW q \in Query, HasPrevious(h, q)
    PROVE  /\ Links(h, q, PreviousLink(h, q))
           /\ "position" \in DOMAIN PreviousLink(h, q)
           /\ PreviousLink(h, q)["position"] = Page(h, q) - 1
  BY Computed, LinkAt DEF PreviousLink

LEMMA CurrentLinkIs ==
    ASSUME NEW h \in Helpers, NEW q \in Query
    PROVE  Links(h, q, CurrentLink(h, q))
  <1>1. CASE h.kind = "page"
    BY <1>1, Computed, LinkAt DEF CurrentLink
  <1>2. CASE h.kind # "page"
    BY <1>2, Computed, MergeLimit DEF CurrentLink, Links
  <1> QED BY <1>1, <1>2

-----------------------------------------------------------------------------
(* The theorems                                                            *)

\* Every step of the client follows a link of the page it is on.
LEMMA StepLinks ==
    ASSUME TypeOK, Next
    PROVE  /\ Links(helper, query, query') /\ ~Refused(helper, query)
           /\ helper' = helper /\ clicks' \in 0 .. MaxClicks
  <1>1. helper \in Helpers /\ query \in Query /\ clicks \in Nat /\ MaxClicks \in Nat
        /\ clicks \in 0 .. MaxClicks
    BY ConstantsAssumption DEF TypeOK, ConstantsAssumption
  <1>2. CASE Reload
    BY <1>1, <1>2, CurrentLinkIs DEF Reload, Click
  <1>3. CASE Forward
    <2>1. \A after \in Ints : Links(helper, query, AfterLink(helper, query, after))
      BY <1>1, LinkAt DEF AfterLink
    <2> QED BY <1>1, <1>3, <2>1, NextLinkIs DEF Forward, Click
  <1>4. CASE Back
    BY <1>1, <1>4, PreviousLinkIs DEF Back
  <1> QED BY <1>2, <1>3, <1>4 DEF Next

LEMMA TypeStep == TypeOK /\ [Next]_vars => TypeOK'
  <1> SUFFICES ASSUME TypeOK, [Next]_vars PROVE TypeOK'
    OBVIOUS
  <1>1. CASE Next
    BY <1>1, StepLinks DEF TypeOK, Links
  <1>2. CASE UNCHANGED vars
    BY <1>2 DEF TypeOK, vars
  <1> QED BY <1>1, <1>2

LEMMA TypeInit == Init => TypeOK
  BY ConstantsAssumption DEF Init, TypeOK, ConstantsAssumption

\* The variables keep their types: following links never leads to a position
\* or a limit that is no integer of the machine.
THEOREM TypeCorrect == Spec => []TypeOK
  BY TypeInit, TypeStep, PTL DEF Spec

KeepsPage ==
    /\ ~Refused(helper, query')
    /\ Limit(helper, query') = Limit(helper, query)
    /\ "filter" \in DOMAIN query =>
         "filter" \in DOMAIN query' /\ query'["filter"] = query["filter"]

LEMMA KeepsPageStep == TypeOK /\ [Next]_vars => [KeepsPage]_query
  <1> SUFFICES ASSUME TypeOK, Next PROVE KeepsPage
    BY DEF vars
  <1>1. Links(helper, query, query') /\ ~Refused(helper, query)
    BY StepLinks
  <1>2. Limit(helper, query') = Limit(helper, query) /\ ~Refused(helper, query')
    BY <1>1, LinkComputed DEF TypeOK
  <1> QED BY <1>1, <1>2 DEF KeepsPage, Links

\* No helper refuses its own link or answers it with another limit, and no
\* link loses a parameter, for any limits, maxima and integers.
THEOREM LinksAlwaysHold == Spec => LinksHold
  <1>1. Spec => [][KeepsPage]_query
    BY TypeCorrect, KeepsPageStep, PTL DEF Spec
  <1>2. LinksHold <=> [][KeepsPage]_query
    BY DEF LinksHold, KeepsPage
  <1> QED BY <1>1, <1>2

LEMMA BackUndoes == TypeOK => BackUndoesForward
  <1> SUFFICES ASSUME TypeOK, helper.kind = "page", Page(helper, query) < MaxInt
               PROVE  LET there == NextLink(helper, query) IN
                        /\ HasPrevious(helper, there)
                        /\ Page(helper, PreviousLink(helper, there)) = Page(helper, query)
    BY DEF BackUndoesForward
  <1> DEFINE there == NextLink(helper, query)
             page  == Page(helper, query)
  <1>1. helper \in Helpers /\ query \in Query
    BY DEF TypeOK
  <1>2. page \in Nat /\ helper.first \in Nat /\ page >= helper.first /\ MaxInt \in Nat
    BY <1>1, Computed, HelperParts
  <1>3. there \in Query /\ "position" \in DOMAIN there /\ there["position"] = page + 1
    BY <1>1, <1>2, NextLinkIs DEF Links, Cast
  <1>4. Page(helper, there) = page + 1
    BY <1>2, <1>3 DEF Page, ParamOr
  <1>5. HasPrevious(helper, there)
    BY <1>2, <1>4 DEF HasPrevious
  <1>6. /\ "position" \in DOMAIN PreviousLink(helper, there)
        /\ PreviousLink(helper, there)["position"] = page
    BY <1>1, <1>2, <1>3, <1>4, <1>5, PreviousLinkIs
  <1>7. Page(helper, PreviousLink(helper, there)) = page
    BY <1>2, <1>6 DEF Page, ParamOr
  <1> QED BY <1>5, <1>7

\* Whatever the first page is and wherever the client starts, the link back
\* from the next page leads to the page it came from.
THEOREM BackAlwaysUndoes == Spec => []BackUndoesForward
  BY TypeCorrect, BackUndoes, PTL

\* The clicks back that are left: the pages between this one and the first.
PagesBefore == IF helper.kind = "page" THEN Page(helper, query) - helper.first ELSE 0

\* A link back, and no other step that does not count as a click, takes one
\* of them away.
OneFewer ==
    /\ PagesBefore \in Nat /\ PagesBefore' \in Nat
    /\ Back => PagesBefore' = PagesBefore - 1
    /\ clicks' = clicks => Back
    /\ HasPrevious(helper, query) <=> PagesBefore # 0

PagesLeft ==
    /\ PagesBefore \in Nat
    /\ HasPrevious(helper, query) <=> PagesBefore # 0

LEMMA PagesCounted == TypeOK => PagesLeft
  <1> SUFFICES ASSUME TypeOK PROVE PagesLeft
    OBVIOUS
  <1>1. /\ Page(helper, query) \in helper.first .. MaxInt
        /\ helper.first \in Nat /\ MaxInt \in Nat
    BY Computed, HelperParts DEF TypeOK
  <1> QED BY <1>1 DEF PagesLeft, PagesBefore, HasPrevious

LEMMA BackTakesOne ==
    ASSUME TypeOK, Back
    PROVE  PagesBefore' = PagesBefore - 1
  <1>1. /\ helper \in Helpers /\ query \in Query /\ helper' = helper
        /\ helper.kind = "page" /\ Page(helper, query) > helper.first
    BY DEF TypeOK, Back, HasPrevious
  <1>2. /\ Page(helper, query) \in helper.first .. MaxInt
        /\ helper.first \in Nat /\ MaxInt \in Nat
    BY <1>1, Computed, HelperParts
  <1>3. "position" \in DOMAIN query' /\ query'["position"] = Page(helper, query) - 1
    BY <1>1, PreviousLinkIs DEF Back
  <1>4. Page(helper, query') = Page(helper, query) - 1
    BY <1>1, <1>2, <1>3 DEF Page, ParamOr
  <1>5. PagesBefore' = Page(helper, query') - helper.first
    BY <1>1 DEF PagesBefore, Page, ParamOr
  <1> QED BY <1>1, <1>2, <1>4, <1>5 DEF PagesBefore

\* A client that only goes back gets one page nearer with each click, by
\* exactly one, and there is a link back until the first page is reached: the
\* number of clicks is known beforehand.  With fairness this is BackEnds.
THEOREM BackDescends == Spec => [][OneFewer]_vars
  <1>1. TypeOK /\ PagesLeft /\ PagesLeft' /\ [Next]_vars => [OneFewer]_vars
    <2> SUFFICES ASSUME TypeOK, PagesLeft, PagesLeft', Next PROVE OneFewer
      OBVIOUS
    <2>1. clicks' = clicks => Back
      <3>1. clicks \in Nat
        BY ConstantsAssumption DEF TypeOK, ConstantsAssumption
      <3> QED BY <3>1 DEF Next, Reload, Forward, Click
    <2> QED BY <2>1, BackTakesOne DEF OneFewer, PagesLeft
  <1>2. Spec => []PagesLeft
    BY TypeCorrect, PagesCounted, PTL
  <1> QED BY <1>1, <1>2, TypeCorrect, PTL DEF Spec
=============================================================================
