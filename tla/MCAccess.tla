-------------------------------- MODULE MCAccess -------------------------------
(* Instances of Access small enough for TLC. *)
EXTENDS Access, TLC

CONSTANTS tia, mum, kid, s1, s2

\* tia teaches kid, who is mum's ward and almost of age; mum teaches tia
Family ==
    [section  |-> s1 :> [teacher |-> tia, roster |-> {kid}] @@
                  s2 :> [teacher |-> mum, roster |-> {tia}],
     links    |-> {<<mum, kid>>},
     age      |-> tia :> 2 @@ mum :> 2 @@ kid :> 1,
     majority |-> 2,
     admins   |-> {},
     present  |-> {tia, mum, kid}]

\* before anybody is related to anybody, and with tia as registrar
Strangers ==
    [section  |-> s1 :> [teacher |-> tia, roster |-> {}] @@
                  s2 :> [teacher |-> tia, roster |-> {kid}],
     links    |-> {},
     age      |-> tia :> 2 @@ mum :> 2 @@ kid :> 0,
     majority |-> 2,
     admins   |-> {tia},
     present  |-> {tia, mum, kid}]

\* mum teaches tia, who teaches kid, and nobody is in anybody's care: a sheet loaded before kid
\* leaves and the section is given to mum is the case where the session's students are old
Colleagues == [Family EXCEPT !.links = {}]

AllWorlds == {Family, Strangers, Colleagues}
================================================================================
