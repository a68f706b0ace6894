-------------------------------- MODULE MCBle ---------------------------------
(* The link of a peripheral, on small instances. *)
EXTENDS Ble

CONSTANT value1    \* the one characteristic

\* What the characteristics of the central's services allow: requests, a
\* different one each, or only to be written to without a response.
MCRequests == [i \in Services |->
                  IF i = 0 THEN {"write", "write_wo_resp"} ELSE {"read", "notify"}]
MCCommands == [i \in Services |-> {"write_wo_resp"}]

\* A characteristic of its own; three services of the central; one of each.
MCValues == [chars |-> {value1}, services |-> {}, props |-> MCCommands]
MCRemote == [chars |-> {}, services |-> Services, props |-> MCRequests]
MCBoth   == [chars |-> {value1}, services |-> {0}, props |-> MCCommands]

MCSetups    == {MCValues, MCRemote, MCBoth}
MCMaxAttrs  == [s \in MCSetups |-> IF s = MCRemote THEN 2 ELSE 1]
MCMaxEvents == [s \in MCSetups |-> IF s = MCBoth THEN 1 ELSE 2]

\* Subscriptions a central makes.
MCAll  == {{}, {"notify", "indicate"}}

\* A central that wants indications only.
MCIndicating        == {MCValues}
MCIndicate          == {{"indicate"}}
MCIndicateBound     == [s \in MCIndicating |-> 1]
===============================================================================
