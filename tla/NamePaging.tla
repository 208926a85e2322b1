----------------------------- MODULE NamePaging -----------------------------
(***************************************************************************)
(* A client lists all names with GetAllNameStates, page after page, while  *)
(* the auction goes on: names are bid on for the first time between two    *)
(* pages, and leases lapse and are taken up again.  A page starts after    *)
(* the last name of the page before (start_after).                         *)
(*                                                                         *)
(* The storage orders names by their bytes and iterates from a first key,  *)
(* included; so the first key is made from start_after by appending a zero *)
(* byte.  Names are therefore sequences of bytes here.                     *)
(***************************************************************************)
EXTENDS Integers, FiniteSets, Sequences

CONSTANTS
    Names,          \* names that can be bid on, as sequences of bytes
    NoName,         \* Option::None of start_after
    Limits,         \* limits the client asks for
    NoLimit,        \* Option::None of limit
    DEFAULT_LIMIT,
    MAX_LIMIT

\* A page of zero names tells a client nothing, and it does not ask for one.
ASSUME PagingAssumption ==
    /\ Names \subseteq Seq(0 .. 255)
    /\ NoName \notin Names
    /\ Limits \subseteq (Nat \ {0}) \union {NoLimit}
    /\ NoLimit \notin Nat
    /\ {DEFAULT_LIMIT, MAX_LIMIT} \subseteq Nat \ {0}

VARIABLES
    stored,     \* names a record is stored for
    owing,      \* those whose rent exceeds the deposit: their query aborts
    cursor,     \* the start_after of the client's next page
    page,       \* the names of the last page, in order
    seen,       \* the names of the pages before it
    done,       \* the client has come to the end
    at_start    \* the names that were stored when the client began

vars == <<stored, owing, cursor, page, seen, done, at_start>>

----------------------------------------------------------------------------
(* The query.                                                              *)

\* The order of the storage: by the first byte that differs, and a name
\* before those it is a beginning of.
Precedes(a, b) ==
    \E i \in 1 .. Len(b) :
        /\ \A j \in 1 .. i - 1 : j <= Len(a) /\ a[j] = b[j]
        /\ i <= Len(a) => a[i] < b[i]

\* Mutant: the page starts with the name it should start after.
start_after_itself(start_after) == start_after

\* Mutant: the page starts at the next name of the same length.
start_at_next_byte(start_after) == [start_after EXCEPT ![Len(start_after)] = @ + 1]

calc_range_start_str(start_after) == Append(start_after, 0)

InRange(name, start_after) ==
    start_after # NoName =>
        ~Precedes(name, calc_range_start_str(start_after))

\* Mutant: the last names first.
rank_from_the_end(name, found) == Cardinality({other \in found : Precedes(name, other)})

\* bucket.range with Order::Ascending: the place of a name among those found.
rank(name, found) == Cardinality({other \in found : Precedes(other, name)})

page_size(limit) ==
    LET wanted == IF limit = NoLimit THEN DEFAULT_LIMIT ELSE limit
    IN  IF wanted <= MAX_LIMIT THEN wanted ELSE MAX_LIMIT

collect_name_states(start_after, limit) ==
    LET found == {name \in stored : InRange(name, start_after)}
        taken == IF Cardinality(found) <= page_size(limit)
                 THEN Cardinality(found) ELSE page_size(limit)
    IN  [i \in 1 .. taken |-> CHOOSE name \in found : rank(name, found) = i - 1]

NamesOf(names) == {names[i] : i \in 1 .. Len(names)}

\* One name whose response aborts (create_name_state_response) aborts the page.
query_all_answers(names) == NamesOf(names) \intersect owing = {}

----------------------------------------------------------------------------
(* The client and the auction beside it.                                   *)

Init ==
    /\ stored = {}
    /\ owing = {}
    /\ cursor = NoName
    /\ page = <<>>
    /\ seen = {}
    /\ done = TRUE
    /\ at_start = {}

\* The client begins to list the names, for the first time or again.
StartListing ==
    /\ done
    /\ cursor' = NoName
    /\ page' = <<>>
    /\ seen' = {}
    /\ done' = FALSE
    /\ at_start' = stored
    /\ UNCHANGED <<stored, owing>>

\* The client asks for a page and goes on after its last name; an empty page
\* is the end.  When the query aborts, it asks again later.
ReadPage ==
    /\ ~done
    /\ \E limit \in Limits : page' = collect_name_states(cursor, limit)
    /\ query_all_answers(page')
    /\ seen' = seen \union NamesOf(page)
    /\ cursor' = IF page' = <<>> THEN cursor ELSE page'[Len(page')]
    /\ done' = (page' = <<>>)
    /\ UNCHANGED <<stored, owing, at_start>>

\* BidName stores a record, or replaces that of a lapsed lease; FundName may
\* make up for what a lapsed lease owes.  No handler removes a record.
Bid(name) ==
    /\ name \notin stored \/ name \in owing
    /\ stored' = stored \union {name}
    /\ owing' = owing \ {name}
    /\ UNCHANGED <<cursor, page, seen, done, at_start>>

\* Time passes until the rent of lapsed leases exceeds their deposits.
FallBehind(names) ==
    /\ names \subseteq stored \ owing
    /\ names # {}
    /\ owing' = owing \union names
    /\ UNCHANGED <<stored, cursor, page, seen, done, at_start>>

Next ==
    \/ StartListing
    \/ ReadPage
    \/ \E name \in Names : Bid(name)
    \/ \E names \in SUBSET (stored \ owing) : FallBehind(names)

SafeSpec == Init /\ [][Next]_vars

\* The client goes on asking as long as it gets answers.
Spec == SafeSpec /\ WF_vars(ReadPage)

----------------------------------------------------------------------------
(* Properties.                                                             *)

\* The client is given names in ascending order over all pages, so none twice,
\* whatever limits it mixes and whatever is bid on between two pages.
EachNameOnce ==
    \A j \in 1 .. Len(page) :
        /\ \A i \in 1 .. j - 1 : Precedes(page[i], page[j])
        /\ \A name \in seen : Precedes(name, page[j])

\* The pages leave no gap: a name that was there all the time has been given
\* to the client once it is past that name, and in the end all of them have.
NothingSkipped ==
    \A name \in at_start :
        \/ name \in seen \union NamesOf(page)
        \/ /\ ~done
           /\ cursor # NoName => Precedes(cursor, name)

\* Every listing comes to an end, unless lapsed names keep its pages from being
\* answered: no page is given again and again.
ListingEnds ==
    <>[](owing = {}) => []<>done

=============================================================================
