----------------------------- MODULE Pagination -----------------------------
(***************************************************************************)
(* The pagination helpers: the page, the limit and the links that an       *)
(* endpoint computes from the query of a request.  Nothing is kept between *)
(* requests, so a client that follows links sends back what the helper put *)
(* into them, and the helper reads its own output: that walk is the state  *)
(* machine here.                                                           *)
(*                                                                         *)
(* Parameters are integers, as the cast (int) gives them: a text that is   *)
(* no number is 0, and one out of range the nearest integer, which is also *)
(* what becomes of the float that PHP_INT_MAX + 1 is.                      *)
(***************************************************************************)
EXTENDS Integers

CONSTANTS
    MaxInt,      \* PHP_INT_MAX
    Defaults,    \* the limits endpoints ask for
    Maxima,      \* the maxima they set
    FirstPages,  \* and their first pages
    MaxClicks    \* bound on the links followed that lead forward or nowhere

ASSUME ConstantsAssumption ==
    /\ MaxInt \in Nat \ {0}
    /\ Defaults \subseteq 0 .. MaxInt
    /\ Maxima \subseteq 0 .. MaxInt
    /\ FirstPages \subseteq 0 .. MaxInt
    /\ MaxClicks \in Nat

VARIABLES
    helper,  \* how the endpoint sets its helper up
    query,   \* the parameters of the client's present request
    clicks   \* number of links followed that are not to a previous page

vars == <<helper, query, clicks>>

-----------------------------------------------------------------------------
\* intval(INF), the maximum unless one is set.
NoMaximum == 0

\* A page helper or a cursor helper.  Only set_max_limit makes one throw.
Helper ==
    [kind : {"page", "cursor"}, default : Defaults, max : {NoMaximum} \cup Maxima,
     throws : BOOLEAN, first : FirstPages]

Helpers == {h \in Helper : h.max \notin Maxima => ~h.throws}

Ints == -1 .. MaxInt

\* The query: the position, the limit, and any other parameter.
Query == UNION {[names -> Ints] : names \in SUBSET {"position", "limit", "filter"}}

ParamOr(q, name, default) == IF name \in DOMAIN q THEN q[name] ELSE default

\* array_merge: the later array wins.
Merge(q, r) ==
    [x \in DOMAIN q \cup DOMAIN r |-> IF x \in DOMAIN r THEN r[x] ELSE q[x]]

\* Fault: the integer is wider than the parameter.
CastWide(n) == n

\* (int) of what a parameter was set to.
Cast(n) == IF n > MaxInt THEN MaxInt ELSE n

AskedLimit(h, q) == ParamOr(q, "limit", h.default)

\* get_limit throws.
Refused(h, q) == h.throws /\ AskedLimit(h, q) >= h.max

\* get_limit otherwise.  A maximum of 0, so also no maximum, makes every limit
\* that is not negative 0.
Limit(h, q) == IF AskedLimit(h, q) < h.max THEN AskedLimit(h, q) ELSE h.max

\* Fault: get_page gives what the client sent.
PageSent(h, q) == ParamOr(q, "position", h.first)

\* get_page
Page(h, q) ==
    LET page == ParamOr(q, "position", h.first) IN
      IF page < h.first THEN h.first ELSE page

-----------------------------------------------------------------------------
(* The links                                                               *)

\* get_current_page_url; a cursor stays as it is.
CurrentLink(h, q) ==
    IF h.kind = "page"
      THEN Merge(q, [position |-> Page(h, q), limit |-> Limit(h, q)])
      ELSE Merge(q, [limit |-> Limit(h, q)])

\* Fault: the link has only the parameters of the helper.
NextLinkBare(h, q) == [position |-> Cast(Page(h, q) + 1), limit |-> Limit(h, q)]

\* make_next_page_url of the page helper.
NextLink(h, q) ==
    Merge(q, [position |-> Cast(Page(h, q) + 1), limit |-> Limit(h, q)])

\* make_next_page_url of the cursor helper.
AfterLink(h, q, after) == Merge(q, [position |-> after, limit |-> Limit(h, q)])

\* Fault: the first page has a link to a page before it.
HasPreviousAlways(h, q) == h.kind = "page"

\* make_previous_page_url returns one.
HasPrevious(h, q) == h.kind = "page" /\ Page(h, q) > h.first

PreviousLink(h, q) ==
    Merge(q, [position |-> Page(h, q) - 1, limit |-> Limit(h, q)])

-----------------------------------------------------------------------------
Init ==
    /\ helper \in Helpers
    /\ query \in Query
    /\ clicks = 0

Click(link) ==
    /\ ~Refused(helper, query)
    /\ clicks < MaxClicks
    /\ clicks' = clicks + 1
    /\ query' = link
    /\ UNCHANGED helper

Reload == Click(CurrentLink(helper, query))

Forward ==
    \/ helper.kind = "page" /\ Click(NextLink(helper, query))
    \/ helper.kind = "cursor" /\ \E after \in Ints : Click(AfterLink(helper, query, after))

Back ==
    /\ ~Refused(helper, query)
    /\ HasPrevious(helper, query)
    /\ query' = PreviousLink(helper, query)
    /\ UNCHANGED <<helper, clicks>>

Next == Reload \/ Forward \/ Back

\* The client goes back as long as there is a link.
Spec == Init /\ [][Next]_vars /\ WF_vars(Back)

-----------------------------------------------------------------------------
(* Properties                                                              *)

\* The variables keep their types: what a link contains is a query that a
\* client may send.
TypeOK ==
    /\ helper \in Helpers
    /\ query \in Query
    /\ clicks \in 0 .. MaxClicks

\* A link is never worth less than the page it is on: the helper does not
\* refuse what it put into the link, the limit it answers with stays the same,
\* and the parameters that are not its own are still there.
LinksHold ==
    [][/\ ~Refused(helper, query')
       /\ Limit(helper, query') = Limit(helper, query)
       /\ "filter" \in DOMAIN query =>
            "filter" \in DOMAIN query' /\ query'["filter"] = query["filter"]
      ]_query

\* A client that goes on and back again is where it was, unless it is on the
\* last page that an integer can number, also when its first request named a
\* page before the first.
BackUndoesForward ==
    LET there == NextLink(helper, query)
    IN  helper.kind = "page" /\ Page(helper, query) < MaxInt =>
          /\ HasPrevious(helper, there)
          /\ Page(helper, PreviousLink(helper, there)) = Page(helper, query)

\* The links back come to an end, at the first page.
BackEnds ==
    <>[](Refused(helper, query) \/
           (~HasPrevious(helper, query) /\
              (helper.kind = "page" => Page(helper, query) = helper.first)))
=============================================================================
