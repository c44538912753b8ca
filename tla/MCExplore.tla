------------------------------ MODULE MCExplore ------------------------------
(* Murphi models and options for Explore: graphs over three or four states. *)
EXTENDS Explore, TLC

CONSTANTS st1, st2, st3, st4

\* The model with one start state in which every guard is false, verified by
\* one thread.
Blank ==
    [THREADS |-> 1, MAX_ERRORS |-> 1, BOUND |-> 0, DEADLOCK_DETECTION |-> "off",
     starts |-> <<st1>>, rule |-> [s \in States |-> [r \in 1..Rules |-> Disabled]],
     permutes |-> {}, raising |-> {}, assumptions |-> States, invariants |-> States,
     covers |-> <<>>, liveness |-> <<>>]

\* Rules: edges maps <<s, r>> to outcomes.
With(edges) ==
    [s \in States |-> [r \in 1..Rules |->
        IF <<s, r>> \in DOMAIN edges THEN edges[<<s, r>>] ELSE Disabled]]

\* Rule 1 goes from st1 to st2 to st3 to st4; rule 2 leads anywhere in targets.
Chain == st1 :> st2 @@ st2 :> st3 @@ st3 :> st4 @@ st4 :> Disabled
Chains(targets) ==
    {[s \in States |-> [r \in 1..Rules |-> IF r = 1 THEN Chain[s] ELSE f[s]]] :
        f \in [States -> targets]}

\* Two threads, every kind of property.
PropertyModels ==
    UNION {{[Blank EXCEPT !.THREADS = 2, !.rule = g, !.starts = <<st4, st1>>,
                          !.liveness = <<{st3}, {st1, st4}>>],
            [Blank EXCEPT !.THREADS = 2, !.rule = g, !.starts = <<st1, st3>>,
                          !.covers = <<{st4}, {st2}>>],
            [Blank EXCEPT !.THREADS = 2, !.rule = g, !.invariants = @ \ {st4}],
            [Blank EXCEPT !.THREADS = 2, !.rule = g, !.assumptions = @ \ {st3},
                          !.covers = <<{st4}>>],
            [Blank EXCEPT !.THREADS = 2, !.rule = g, !.raising = {st3}]} :
              g \in Chains({st1, st4, Disabled})}

\* Two threads, several errors allowed and found.
ManyErrorModels ==
    LET Many == [Blank EXCEPT !.THREADS = 2, !.MAX_ERRORS = 2,
                              !.DEADLOCK_DETECTION = "stuttering"]
    IN  UNION {{[Many EXCEPT !.rule = g, !.permutes = {<<st2, 2>>}, !.invariants = @ \ {st4}],
                [Many EXCEPT !.rule = g, !.starts = <<GuardError, st3, st1>>],
                [Many EXCEPT !.rule = g, !.raising = {st3}]} :
                  g \in Chains({st2, GuardError}) \cup Chains({st1, Assumed, RuleError})}

\* One thread, a bound that cuts off a part.
BoundModels ==
    LET Bound == [Blank EXCEPT !.BOUND = 2, !.DEADLOCK_DETECTION = "stuck"]
    IN  UNION {{[Bound EXCEPT !.rule = g, !.invariants = @ \ {st4}],
                [Bound EXCEPT !.rule = g, !.starts = <<st2, st1>>],
                [Bound EXCEPT !.rule = g, !.starts = <<st1, Assumed, st3>>,
                              !.assumptions = @ \ {st4}]} :
                  g \in Chains({st1, st3, st4, Disabled})}

\* One thread, a liveness property, every graph of three states (st4 is cut off).
LivenessModels ==
    {[Blank EXCEPT !.rule = [s \in States |-> [r \in 1..Rules |->
                                IF s = st4 THEN Disabled ELSE g[s][r]]],
                   !.liveness = <<{st3}>>] :
        g \in [{st1, st2, st3} -> [1..Rules -> {st1, st2, st3, Disabled}]]}

SmallModels == PropertyModels \cup ManyErrorModels \cup BoundModels \cup LivenessModels

\* Two threads and a bound, a shortcut from st1 to st3, a violation in st4.
ShortcutModels ==
    {[Blank EXCEPT !.THREADS = 2, !.BOUND = 2, !.invariants = @ \ {st4},
                   !.rule = With(<<st1, 1>> :> st2 @@ <<st2, 1>> :> st3
                                 @@ <<st1, 2>> :> st3 @@ <<st3, 1>> :> st4)]}

\* More errors allowed than there are.
FewErrorModels ==
    {[m EXCEPT !.MAX_ERRORS = 3] : m \in PropertyModels}
==============================================================================
