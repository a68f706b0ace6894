------------------------------ MODULE MCCentral -------------------------------
EXTENDS Central, TLC

\* One peripheral offers all the services, the others the first alone; they are
\* read, written to and subscribed to.
MCHas ==
    LET rich == CHOOSE x \in Peers : TRUE
    IN  [x \in Peers |-> IF x = rich THEN Services ELSE {0}]
MCProps == [i \in Services |-> {"read", "write_wo_resp", "notify"}]
MCCccd  == {{}, {"notify"}, {"indicate"}}

\* A sketch that only connects, one with remote services, one with values.
MCSetups ==
    [allowed : {1, 2}, services : {{}}, chars : {{}}, strays : {TRUE}]
    \cup [allowed : {2}, services : {{0}}, chars : {{}}, strays : {FALSE}]
    \cup [allowed : {1}, services : {{0, 1}}, chars : {{}}, strays : {FALSE}]
    \cup [allowed : {1, 2}, services : {{}}, chars : {Chars}, strays : {FALSE}]

\* The discoveries multiply the interleavings.
MCMaxEvents == [s \in MCSetups |-> IF s.services = {} THEN 2 ELSE 1]

Symmetry == Permutations(Conns)
===============================================================================
