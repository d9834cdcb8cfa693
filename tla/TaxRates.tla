-------------------------------- MODULE TaxRates -------------------------------
(***************************************************************************)
(* The knowledge base of tax rates.  A rate of a (jurisdiction, type,      *)
(* category) is in effect from an instant until another one replaces it;   *)
(* rows are closed, never changed or removed, so that an old invoice can   *)
(* be checked against the rates of its day.  One transaction takes its     *)
(* instant first, then reads the current rows of each topic it has a rate  *)
(* for, one topic after the other and without locking them; it closes what *)
(* it read and inserts its own.  The admin's form brings one rate, the     *)
(* loader a file of them.                                                  *)
(***************************************************************************)
EXTENDS Integers, FiniteSets

CONSTANTS
    Origin, Destination, Customs,   \* jurisdictions an invoice may be priced in
    Items,         \* categories of item, besides the catch-all
    Topics,        \* <<jurisdiction, type, category>> that admins set rates for
    Rates,         \* \subseteq Nat
    Requests,      \* transactions in progress at once
    MaxChanges,    \* bound on transactions
    Batches        \* \subseteq SUBSET Topics: the topics one of them has rates for

Jurisdictions == {Origin, Destination, Customs}
CatchAll == "*"

ASSUME TaxRatesConstants ==
    /\ MaxChanges \in Nat /\ Rates \subseteq Nat /\ CatchAll \notin Items
    /\ Topics \subseteq Jurisdictions \X {"sales", "duty"} \X (Items \cup {CatchAll})
    /\ Batches \subseteq SUBSET Topics

VARIABLES
    rules,    \* the rows: [topic, rate, from, to]; to = 0: still current
    adding,   \* [Requests -> the rates still to look up, what was read, the instant]
    clock     \* one instant per transaction

taxRatesVars == <<rules, adding, clock>>

Idle == [wanted |-> {}, read |-> {}, now |-> 0]

TaxRatesInit ==
    /\ rules = {}
    /\ adding = [q \in Requests |-> Idle]
    /\ clock = 0

Current(topic) == {r \in rules : r.topic = topic /\ r.to = 0}

\* A file whose rates do not all cite a government source is refused whole,
\* as is the form.
Begin(q, wanted, government) ==
    /\ adding[q] = Idle
    /\ government
    /\ clock < MaxChanges
    /\ clock' = clock + 1
    /\ adding' = [adding EXCEPT ![q] = [wanted |-> wanted, read |-> {}, now |-> clock + 1]]
    /\ UNCHANGED rules

\* A rate that is current already is left alone.
LooksUp(q, w) ==
    LET current == Current(w.topic)
        found == IF \E c \in current : c.rate = w.rate THEN {}
                 ELSE {[topic |-> w.topic, rate |-> w.rate, current |-> current]}
    IN  /\ w \in adding[q].wanted
        /\ adding' = [adding EXCEPT ![q].wanted = @ \ {w}, ![q].read = @ \cup found]
        /\ UNCHANGED <<rules, clock>>

\* Mutant: the old rate is closed, but the new one is not in force yet.
StartsTomorrow(a) == a.now + 1

EffectiveFrom(a) == a.now

\* The commit: the rows closed and the rows inserted.  The UPDATE is by id:
\* it closes again what was closed meanwhile.
Writes(q) ==
    LET a == adding[q]
        closed == {r \in rules : \E f \in a.read : \E c \in f.current :
                                     c.topic = r.topic /\ c.from = r.from}
    IN  /\ a # Idle /\ a.wanted = {}
        /\ rules' = (rules \ closed)
                    \cup {[r EXCEPT !.to = a.now] : r \in closed}
                    \cup {[topic |-> f.topic, rate |-> f.rate,
                           from |-> EffectiveFrom(a), to |-> 0] : f \in a.read}
        /\ adding' = [adding EXCEPT ![q] = Idle]
        /\ UNCHANGED clock

RateFiles ==
    UNION {{{[topic |-> t, rate |-> f[t]] : t \in T} : f \in [T -> Rates]} : T \in Batches}

TaxRatesNext ==
    \/ \E q \in Requests : Writes(q)
    \/ \E q \in Requests : \E w \in adding[q].wanted : LooksUp(q, w)
    \/ \E q \in Requests, wanted \in RateFiles, government \in BOOLEAN :
          Begin(q, wanted, government)

TaxRatesSpec == TaxRatesInit /\ [][TaxRatesNext]_taxRatesVars

-----------------------------------------------------------------------------
(***************************************************************************)
(* Pricing a line (categorizer.py): all the rules of the jurisdictions are *)
(* loaded with one query and resolved in memory.                           *)
(***************************************************************************)
InEffect(at) == {r \in rules : r.from <= at /\ (r.to = 0 \/ at < r.to)}

\* Mutant: the first row that was loaded is kept.
Oldest(rows) == CHOOSE r \in rows : \A s \in rows : r.from <= s.from

Newest(rows) == CHOOSE r \in rows : \A s \in rows : s.from <= r.from

\* The rate of each type, as pairs: the item's own, else the catch-all's.
Resolve(jurisdiction, item, at) ==
    LET RowsOf(type, cat) == {r \in InEffect(at) : r.topic = <<jurisdiction, type, cat>>}
        Chosen(type) == IF RowsOf(type, item) # {} THEN RowsOf(type, item)
                                                 ELSE RowsOf(type, CatchAll)
    IN  {<<type, Newest(Chosen(type)).rate>> : type \in {t \in {"sales", "duty"} : Chosen(t) # {}}}

\* Sales tax has one source: the destination if it has a rule, if only of 0%,
\* and the origin otherwise.
SalesSource(destination, item, at) ==
    IF \E x \in Resolve(destination, item, at) : x[1] = "sales" THEN destination ELSE Origin

\* The charges of a taxable line.
Charges(destination, item, at) ==
    {c \in {<<j, x[1], x[2]>> : j \in Jurisdictions, x \in {"sales", "duty"} \X Rates} :
        /\ c[3] > 0
        /\ <<c[2], c[3]>> \in Resolve(c[1], item, at)
        /\ c[2] = "sales" => c[1] = SalesSource(destination, item, at)}

\* knowledge_base.lookup_rate: ORDER BY category = '*', effective_from DESC.
LookupRate(jurisdiction, type, item, at) ==
    {r.rate : r \in {r \in InEffect(at) :
        /\ r.topic \in {<<jurisdiction, type, item>>, <<jurisdiction, type, CatchAll>>}
        /\ \A s \in InEffect(at) :
              /\ s.topic = <<jurisdiction, type, item>> => r.topic = s.topic
              /\ s.topic = r.topic => s.from <= r.from}}

-----------------------------------------------------------------------------
(* The in-memory resolver has the precedence of lookup_rate at every       *)
(* instant, and a line bears one sales tax: the destination's.             *)
PricedAsLookedUp ==
    \A at \in 1..clock, item \in Items :
        LET charges == Charges(Destination, item, at)
            sales == {c \in charges : c[2] = "sales"}
            there == LookupRate(Destination, "sales", item, at)
        IN  /\ \A j \in Jurisdictions :
                  {x[2] : x \in {y \in Resolve(j, item, at) : y[1] = "duty"}}
                      = LookupRate(j, "duty", item, at)
            /\ {c[3] : c \in sales}
                  = (IF there # {} THEN there ELSE LookupRate(Origin, "sales", item, at)) \ {0}

(* From its first rate on, a topic has a rate in effect at every instant,  *)
(* whichever way the changes interleave: no invoice finds a day without.   *)
RatesHaveNoGap ==
    \A r \in rules : \A at \in r.from..clock : \E s \in InEffect(at) : s.topic = r.topic

=============================================================================
