--------------------------- MODULE MCReviewCommand ---------------------------
EXTENDS ReviewCommand

C(type, name, small) == [type |-> type, name |-> name, small |-> small]

(* A skill and an agent share a name, next to each other or with another   *)
(* component between; a rules file has no rubric.                          *)
MCSetups ==
    {<<C("skill", "deploy", TRUE), C("agent", "deploy", TRUE),
       C("rule", "style", TRUE), C("skill", "test", TRUE)>>,
     <<C("skill", "deploy", TRUE), C("skill", "test", FALSE),
       C("agent", "deploy", TRUE), C("skill", "lint", TRUE)>>,
     <<C("agent", "a", TRUE), C("skill", "b", FALSE), C("agent", "c", TRUE),
       C("agent", "d", TRUE), C("hooks", "e", TRUE)>>,
     <<C("rule", "style", TRUE)>>}

(* Every client, but that a URL is for the OpenAI-compatible one only.     *)
MCClients == {c \in Client : c.provider # "openai" => c.url = "public"}
=============================================================================
