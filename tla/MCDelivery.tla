----------------------------- MODULE MCDelivery -----------------------------
(* A small bus: three clients, one well-known name, and configurations in  *)
(* the manner of session.conf and system.conf.                             *)
EXTENDS Delivery

CONSTANTS ann, bob, eve, mail

MCWho == [c \in {ann, bob, eve} |->
            [user |-> IF c = bob THEN "service" ELSE "plain", groups |-> <<"all">>, console |-> FALSE]]

Blank == [type |-> Nil, iface |-> Nil, member |-> Nil, sender |-> Nil, destination |-> Nil]

All      == Blank
FromMail == [Blank EXCEPT !.type = "signal", !.sender = mail]
ToAnn    == [Blank EXCEPT !.type = "return", !.destination = ann]
Own      == [Blank EXCEPT !.iface = "I", !.sender = bob]

MCRules == {All, FromMail, ToAnn, Own}

MCAsksFor == [c \in {ann, bob, eve} |->
                CASE c = ann -> {FromMail} [] c = bob -> {Own} [] c = eve -> {All, ToAnn, Own}]

Plain == [type |-> "signal", iface |-> "I", member |-> Nil, reply |-> FALSE,
          fds |-> FALSE, dest |-> Nil, sender |-> Nil]

MCMessages == {Plain,
               [Plain EXCEPT !.type = "call", !.dest = mail, !.fds = TRUE],
               [Plain EXCEPT !.type = "return", !.iface = Nil, !.dest = ann, !.reply = TRUE]}

NoPolicy == [default |-> <<>>, group |-> [g \in {"all"} |-> <<>>],
             user |-> [u \in {"plain", "service"} |-> <<>>],
             console |-> [b \in BOOLEAN |-> <<>>], mandatory |-> <<>>]

System == [NoPolicy EXCEPT
  !.default = <<Rule("user", TRUE), Rule("own", FALSE),
                [Rule("send", FALSE) EXCEPT !.type = "call"],
                [Rule("send", TRUE) EXCEPT !.type = "signal"],
                [Rule("send", TRUE) EXCEPT !.type = "return"],
                [Rule("receive", TRUE) EXCEPT !.type = "call"],
                [Rule("receive", TRUE) EXCEPT !.type = "return"],
                [Rule("receive", TRUE) EXCEPT !.type = "signal"],
                [Rule("send", TRUE) EXCEPT !.peer = Driver]>>,
  !.group["all"] = <<[Rule("send", TRUE) EXCEPT !.peer = mail]>>,
  !.user["service"] = <<[Rule("own", TRUE) EXCEPT !.peer = mail]>>]

(* As System, and anybody may eavesdrop. *)
Monitor == [System EXCEPT
  !.mandatory = <<[Rule("receive", TRUE) EXCEPT !.eavesdrop = TRUE]>>]

MCFull == {{}, {eve}}

MCPolicies == <<Monitor, System>>

=============================================================================
