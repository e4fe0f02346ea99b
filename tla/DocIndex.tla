------------------------------ MODULE DocIndex ------------------------------
(***************************************************************************)
(* What the knowledge base promises a reader: a table of one dimension     *)
(* that shows, at each position, a text alone or beside its own vector.    *)
(*                                                                         *)
(*   - it is synchronised with a whole corpus in one step, which keeps the *)
(*     vector of every text that stays at its position;                    *)
(*   - vectors appear a batch at a time, each of the text it stands beside *)
(*     and of the table's dimension, and are never taken away otherwise.   *)
(***************************************************************************)
EXTENDS KbTable

CONSTANTS Jobs,     \* the builds whose corpora may be shown
          BatchSize \* texts that get their vectors in one step

VARIABLES there, \* the dimension of the table, 0 when there is none
          shown  \* the [text, vector] shown at each position

dvars == <<there, shown>>

DInit == there = 0 /\ shown = NoRows

DCreate ==
    /\ there = 0
    /\ there' \in {Width[m] : m \in Models}
    /\ UNCHANGED shown

DDrop == there' = 0 /\ shown' = NoRows

Bare(t) == [text |-> t, vector |-> Null]

DSync(C) ==
    /\ there # 0
    /\ ~Duplicated(C)
    /\ shown' = [p \in Places(C) |->
                    IF p \in DOMAIN shown /\ shown[p].text = TextAt(C, p)
                    THEN shown[p]
                    ELSE Bare(TextAt(C, p))]
    /\ UNCHANGED there

DFill(P, m) ==
    /\ there = Width[m]
    /\ Cardinality(P) <= BatchSize
    /\ shown' = [p \in DOMAIN shown |->
                    IF p \in P THEN [shown[p] EXCEPT !.vector = [text |-> shown[p].text,
                                                                 model |-> m]]
                    ELSE shown[p]]
    /\ UNCHANGED there

DNext ==
    \/ DCreate
    \/ DDrop
    \/ \E j \in Jobs : DSync(j.chunks)
    \/ \E P \in SUBSET DOMAIN shown, m \in Models : DFill(P, m)

DSpec == DInit /\ [][DNext]_dvars
=============================================================================
