---------------------------- MODULE NameRegistry ----------------------------
(***************************************************************************)
(* What the auction promises about who has a name, without rates, deposits *)
(* or delays.  Each name has a holder and a highest bidder; they are the   *)
(* same account when nothing is contested.  Calls of accounts change the   *)
(* bidder; only the passing of time makes the bidder the holder or ends a  *)
(* lease.  Each of the two carries the time its tenure counts from, which  *)
(* a holder that wins its own name back keeps.                             *)
(***************************************************************************)
EXTENDS Integers

CONSTANTS Names, Addrs, None

VARIABLES
    now,             \* the time
    holder,          \* who holds each name: an account or None
    holder_since,    \* the time the holder's tenure counts from
    bidder,          \* who takes the name over when nobody else bids
    bidder_since,    \* the time the bidder's tenure would count from
    live             \* the names whose lease lasts

registry_vars == <<now, holder, holder_since, bidder, bidder_since, live>>

Init ==
    /\ now \in Nat
    /\ holder = [name \in Names |-> None]
    /\ holder_since = [name \in Names |-> 0]
    /\ bidder = [name \in Names |-> None]
    /\ bidder_since = [name \in Names |-> 0]
    /\ live = {}

\* An account claims a name nobody has a lease on.
Claim(name, account, since) ==
    /\ name \notin live
    /\ since \in 0 .. now
    /\ live' = live \union {name}
    /\ holder' = [holder EXCEPT ![name] = None]
    /\ holder_since' = [holder_since EXCEPT ![name] = 0]
    /\ bidder' = [bidder EXCEPT ![name] = account]
    /\ bidder_since' = [bidder_since EXCEPT ![name] = since]
    /\ UNCHANGED now

\* An account becomes the highest bidder; the holder stays.
Outbid(name, account) ==
    /\ name \in live
    /\ account # bidder[name]
    /\ bidder' = [bidder EXCEPT ![name] = account]
    /\ bidder_since' =
         [bidder_since EXCEPT
            ![name] = IF account = holder[name] THEN holder_since[name] ELSE now]
    /\ UNCHANGED <<now, holder, holder_since, live>>

\* The holder passes the name on, with its bid when it is the bidder too or
\* without it.
Give(name, account) ==
    /\ name \in live
    /\ holder[name] # None
    /\ holder' = [holder EXCEPT ![name] = account]
    /\ \/ UNCHANGED bidder
       \/ /\ bidder[name] = holder[name]
          /\ bidder' = [bidder EXCEPT ![name] = account]
    /\ UNCHANGED <<now, holder_since, bidder_since, live>>

\* The highest bidder passes its bid on.
GiveBid(name, account) ==
    /\ name \in live
    /\ holder[name] # bidder[name]
    /\ bidder' = [bidder EXCEPT ![name] = account]
    /\ UNCHANGED <<now, holder, holder_since, bidder_since, live>>

\* Money paid after a lease ended takes it up again where it stood.
Revive(name) ==
    /\ bidder[name] # None
    /\ live' = live \union {name}
    /\ UNCHANGED <<now, holder, holder_since, bidder, bidder_since>>

\* Time passes: bidders become holders, leases end.
Elapse ==
    /\ now' \in Nat
    /\ now' > now
    /\ \E won \in SUBSET Names :
         /\ holder' = [name \in Names |-> IF name \in won THEN bidder[name] ELSE holder[name]]
         /\ holder_since' = [name \in Names |->
                IF name \in won THEN bidder_since[name] ELSE holder_since[name]]
    /\ live' \subseteq live
    /\ UNCHANGED <<bidder, bidder_since>>

Next ==
    \/ Elapse
    \/ \E name \in Names :
         \/ Revive(name)
         \/ \E account \in Addrs :
              \/ \E since \in 0 .. now : Claim(name, account, since)
              \/ Outbid(name, account)
              \/ Give(name, account)
              \/ GiveBid(name, account)

Spec == Init /\ [][Next]_registry_vars
=============================================================================
