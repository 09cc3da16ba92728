------------------------------- MODULE MCStores -------------------------------
(* Small instances of the parts of the database for TLC: a behavior is one of *)
(* one part, and the others rest.                                             *)
EXTENDS Database, TLC
CONSTANTS n1, n2, n3, a1, a2, p1

Symmetry == Permutations(Numbers) \union Permutations(Analysts)

\* Nothing known, and a small change of the score that is a change of the risk.
MCMeasured ==
    {[score |-> s, evidence |-> TRUE] : s \in {38, 40}} \union {[score |-> 0, evidence |-> FALSE]}

VARIABLES
    part,   \* what this behavior is about
    scene   \* the numbers and the calculations of this behavior

\* Two numbers, of which one at most is trusted, and two calculations while time stands
\* still, or three numbers and one calculation.
Scenes == {s \in [numbers : SUBSET Numbers, analysts : SUBSET Analysts] :
              Cardinality(s.numbers) = 4 - Cardinality(s.analysts) /\ s.analysts # {}}

InScene ==
    /\ \A a \in Analysts \ scene.analysts : number[a] = NoNumber
    /\ \A a \in scene.analysts : number[a] \in scene.numbers \union {NoNumber}
    /\ Trusted \subseteq scene.numbers
    /\ Cardinality(scene.analysts) = 2 =>
          /\ clock = 0 /\ \A n \in Trusted : expires[n] = Never
          /\ Cardinality(Trusted) <= 1

ReputationPart ==
    /\ part = "reputation"
    /\ ReputationStep
    /\ InScene'

\* Any phone may be a contact, and one is on the lists and in the logs.
ListPart ==
    /\ part = "lists"
    /\ ListStep
    /\ \A l \in ListTypes : listed'[l] \subseteq {p1}
    /\ \A c \in Clients : doing'[c] \in ListTypes => phone'[c] = p1
    /\ \A t \in LogTables : \A n \in Phones \ {p1} : rows'[t][n] = 0

\* Outcomes are told of observations while there are no snapshots, or snapshots are saved.
BehaviorPart ==
    /\ part = "behavior"
    /\ BehaviorStep
    /\ \/ \A i \in DOMAIN timeline' : timeline'[i].applied = "UNKNOWN" /\ ~timeline'[i].confirmed
       \/ Saved(snapshots') = {}

MigrationPart ==
    /\ part = "migration"
    /\ MigrationStep

MCInit ==
    /\ part \in {"reputation", "lists", "behavior", "migration"}
    /\ DatabaseInit
    /\ IF part = "reputation" THEN scene \in Scenes ELSE scene = [numbers |-> {}, analysts |-> {}]
    /\ part # "behavior" => today = 0
    /\ part # "migration" => numbers = "none" /\ alone

MCNext ==
    /\ UNCHANGED <<part, scene>>
    /\ ReputationPart \/ ListPart \/ BehaviorPart \/ MigrationPart

MCSpec == MCInit /\ [][MCNext]_<<allVars, part, scene>>
===============================================================================
