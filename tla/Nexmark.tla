------------------------------- MODULE Nexmark -------------------------------
(***************************************************************************)
(* `wfgen gen-nexmark --check` (nexmark/mod.rs, cmd_gen_nexmark.rs): the   *)
(* NEXMark stream of persons, auctions and bids, its distribution over     *)
(* time buckets, and the check of every event against what the generator   *)
(* promises.                                                               *)
(*                                                                         *)
(* The check runs the generator again with the same seed; here an event is *)
(* checked in the step that generates it.  Ids are relative to the first   *)
(* one and the time of an event is its number (one event each 100 us).     *)
(* Fields that refer to no other event (names, prices, channels) are left  *)
(* out.                                                                    *)
(***************************************************************************)
EXTENDS Integers, Sequences, FiniteSets

Ext == INSTANCE FiniteSetsExt

CONSTANTS
    Counts,         \* the numbers of events asked for
    People, Auctions, Bids, \* of each in one epoch (1, 3, 46)
    HotPeople, HotAuctions, \* size of a hot batch (100, 100)
    ActivePeople, PersonLead,       \* (1000, 10)
    InFlightAuctions, AuctionLead,  \* (100, 10)
    BucketWidth     \* events in one time bucket (300000)

Epoch == People + Auctions + Bids

ASSUME NexmarkAssumption ==
    /\ {People, Auctions, Bids, PersonLead, AuctionLead, BucketWidth} \subseteq Nat \ {0}
    /\ Counts \subseteq Nat \ {0}
    /\ ActivePeople \in Nat /\ HotPeople \in 1 .. ActivePeople
    /\ InFlightAuctions \in Nat /\ HotAuctions \in 1 .. InFlightAuctions

VARIABLES
    count,
    number,     \* event_id
    people, auctions, bids,     \* generated so far
    ids,        \* of persons and auctions, as the check collects them
    buckets,    \* the temporary files
    watermarks, \* latest time in each bucket
    disorder,   \* oog_count
    violations, badReferences,
    report      \* what is printed at the end

nexmarkVars == << count, number, people, auctions, bids, ids, buckets, watermarks, disorder,
                  violations, badReferences, report >>

-----------------------------------------------------------------------------
(* The formulas of the generator. *)

EpochOf(id) == id \div Epoch
Place(id) == id % Epoch

\* last_base0_person_id, last_base0_auction_id.
LastPerson(id) == EpochOf(id) * People + Ext!Min({Place(id), People - 1})
LastAuction(id) ==
    IF Place(id) < People THEN EpochOf(id) * Auctions - 1
    ELSE EpochOf(id) * Auctions + Ext!Min({Place(id) - People, Auctions - 1})

\* Mutant of RecentPeople: the lead is inclusive, as it is for auctions.
RecentPeopleInclusive(id) ==
    LET known == LastPerson(id) + 1
        active == Ext!Min({known, ActivePeople})
    IN  known - active .. known + PersonLead

\* next_base0_person_id: the active people, and some not generated yet.
RecentPeople(id) ==
    LET known == LastPerson(id) + 1
        active == Ext!Min({known, ActivePeople})
    IN  known - active .. known + PersonLead - 1

\* next_base0_auction_id: one more than for people.
RecentAuctions(id) == Ext!Max({LastAuction(id) - InFlightAuctions, 0}) .. LastAuction(id) + AuctionLead

Hot(last, batch) == (last \div batch) * batch
Sellers(id) == {Hot(LastPerson(id), HotPeople)} \cup RecentPeople(id)
Bidders(id) == {Hot(LastPerson(id), HotPeople) + 1} \cup RecentPeople(id)
Offers(id) == {Hot(LastAuction(id), HotAuctions)} \cup RecentAuctions(id)

-----------------------------------------------------------------------------
(* The check. *)

\* check_event: below what a stream of this length has, and the lead.
InRange(id, perEpoch, lead) == id \in 0 .. (count * perEpoch) \div Epoch - 1 + lead
PersonInRange(id) == InRange(id, People, PersonLead)
AuctionInRange(id) == InRange(id, Auctions, AuctionLead)

\* The rules across events (run_checked): active people with the lead, known if
\* they precede.
PersonIsRecent(id) ==
    /\ id \in Ext!Max({people - ActivePeople, 0}) .. people + PersonLead - 1
    /\ id < people => id \in ids.people
AuctionIsRecent(id) ==
    /\ id \in Ext!Max({auctions - 1 - InFlightAuctions, 0}) .. auctions - 1 + AuctionLead
    /\ id <= auctions - 1 => id \in ids.auctions

Failed(checks) == Cardinality({k \in DOMAIN checks : ~ checks[k]})

-----------------------------------------------------------------------------
(* Generation. *)

NoReport == [rows |-> FALSE, disorder |-> -1, violations |-> -1, references |-> -1]

BucketCount == Ext!Max({count \div BucketWidth, 1})

\* The last bucket takes the rest of the span.
BucketOf(id) == Ext!Min({id \div BucketWidth, BucketCount - 1}) + 1

InitNexmark ==
    /\ count \in Counts
    /\ number = 0 /\ people = 0 /\ auctions = 0 /\ bids = 0
    /\ ids = [people |-> {}, auctions |-> {}]
    /\ buckets = [b \in 1 .. BucketCount |-> << >>]
    /\ watermarks = [b \in 1 .. BucketCount |-> -1]
    /\ disorder = 0 /\ violations = 0 /\ badReferences = 0
    /\ report = NoReport

\* An event out of the generator: statistics, bucket file and the verdict of
\* the check on it (`valid`) and on its references.
Emit(valid, references) ==
    LET b == BucketOf(number)
    IN  /\ number' = number + 1
        /\ buckets' = [buckets EXCEPT ![b] = Append(@, number)]
        /\ IF number < watermarks[b]
           THEN disorder' = disorder + 1 /\ UNCHANGED watermarks
           ELSE watermarks' = [watermarks EXCEPT ![b] = number] /\ UNCHANGED disorder
        /\ violations' = violations + (IF valid THEN 0 ELSE 1)
        /\ badReferences' = badReferences + Failed(references)
        /\ UNCHANGED << count, report >>

Person ==
    /\ number < count /\ Place(number) < People
    /\ LET id == LastPerson(number)
       IN  /\ Emit(PersonInRange(id), << id \notin ids.people >>)
           /\ ids' = [ids EXCEPT !.people = @ \cup {id}]
    /\ people' = people + 1 /\ UNCHANGED << auctions, bids >>

Auction ==
    /\ number < count /\ Place(number) \in People .. People + Auctions - 1
    /\ LET id == LastAuction(number)
       IN  /\ \E seller \in Sellers(number) :
                Emit(AuctionInRange(id) /\ PersonInRange(seller),
                     << id \notin ids.auctions, PersonIsRecent(seller) >>)
           /\ ids' = [ids EXCEPT !.auctions = @ \cup {id}]
    /\ auctions' = auctions + 1 /\ UNCHANGED << people, bids >>

Bid ==
    /\ number < count /\ Place(number) >= People + Auctions
    /\ \E auction \in Offers(number), bidder \in Bidders(number) :
            Emit(AuctionInRange(auction) /\ PersonInRange(bidder),
                 << AuctionIsRecent(auction), PersonIsRecent(bidder) >>)
    /\ bids' = bids + 1 /\ UNCHANGED << people, auctions, ids >>

\* The lines of the bucket files one after the other: bucket, place in it.
Written == UNION {{b} \X DOMAIN buckets[b] : b \in DOMAIN buckets}
EventAt(at) == buckets[at[1]][at[2]]
Follows(at, before) ==
    before[1] < at[1] \/ (before[1] = at[1] /\ before[2] < at[2])

Report ==
    /\ number = count /\ report = NoReport
    /\ report' = [rows |-> /\ people = (count * People) \div Epoch
                           /\ auctions = (count * Auctions) \div Epoch,
                  disorder |-> disorder, violations |-> violations, references |-> badReferences]
    /\ UNCHANGED << count, number, people, auctions, bids, ids, buckets, watermarks, disorder,
                    violations, badReferences >>

NexmarkNext == Person \/ Auction \/ Bid \/ Report

NexmarkSpec == InitNexmark /\ [][NexmarkNext]_nexmarkVars

-----------------------------------------------------------------------------
(* Properties. *)

\* The bucket files, one after the other, are the events in the order of their
\* time, none missing: the same order in which `verify-nexmark` feeds the rule
\* engine (cmd_gen_nexmark.rs:67-70, cmd_verify_nexmark.rs:66).
BucketsInOrder ==
    /\ {EventAt(at) : at \in Written} = 0 .. number - 1
    /\ \A at, before \in Written : Follows(at, before) => EventAt(before) < EventAt(at)

\* The generator and the check, written apart from each other, agree: whatever
\* the random choices, no reference is out of its window at any time, and a
\* stream of whole epochs is reported without a complaint (mod.rs:346-386
\* against cmd_gen_nexmark.rs:263-301 and mod.rs:545-551).  The files hold the
\* stream that was checked.
CheckAgrees ==
    /\ badReferences = 0
    /\ report # NoReport /\ count % Epoch = 0
          => report = [rows |-> TRUE, disorder |-> 0, violations |-> 0, references |-> 0]
    /\ BucketsInOrder
=============================================================================
