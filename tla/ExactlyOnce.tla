------------------------------ MODULE ExactlyOnce ------------------------------
(***************************************************************************)
(* What a caller and the people concerned may rely on, whatever is sent    *)
(* twice, refused, cut short, retried or crashed in between.  A key takes  *)
(* effect once, for one request, and answers for none that its digest      *)
(* tells from that one; what the digest leaves out it does not tell.  The  *)
(* news of the effect may be owed from then on, is settled once, and is    *)
(* told once or not at all; all of a batch may be settled together.        *)
(***************************************************************************)
EXTENDS Naturals

CONSTANTS
    Keys, Bodies,
    Digest,      \* Digest[k][b]: what a key remembers of a request
    Announced    \* the keys whose news somebody is to be told

VARIABLES
    effect,      \* what each key has done: <<>>, or the one request it did
    answered,    \* the requests each key has answered with success
    news,        \* "none", "owed", "told" or "lost"
    notices      \* how often each key's news was told

eoVars == <<effect, answered, news, notices>>

EOInit ==
    /\ effect = [k \in Keys |-> <<>>]
    /\ answered = [k \in Keys |-> {}]
    /\ news = [k \in Keys |-> "none"]
    /\ notices = [k \in Keys |-> 0]

TakeEffect(k, b) ==
    /\ effect[k] = <<>>
    /\ effect' = [effect EXCEPT ![k] = <<b>>]
    /\ answered' = [answered EXCEPT ![k] = @ \cup {b}]
    /\ news' \in {news, [news EXCEPT ![k] = "owed"]}
    /\ UNCHANGED notices

AnswerAgain(k, b) ==
    /\ \E a \in Bodies : effect[k] = <<a>> /\ Digest[k][a] = Digest[k][b]
    /\ answered' = [answered EXCEPT ![k] = @ \cup {b}]
    /\ UNCHANGED <<effect, news, notices>>

Settle ==
    /\ news' \in [Keys -> {"none", "owed", "told", "lost"}]
    /\ \A k \in Keys : news'[k] # news[k] => news[k] = "owed" /\ news'[k] \in {"told", "lost"}
    /\ notices' = [k \in Keys |-> notices[k] +
                     IF k \in Announced /\ news[k] = "owed" /\ news'[k] = "told" THEN 1 ELSE 0]
    /\ UNCHANGED <<effect, answered>>

EONext == Settle \/ \E k \in Keys, b \in Bodies : TakeEffect(k, b) \/ AnswerAgain(k, b)

EOSpec == EOInit /\ [][EONext]_eoVars

=============================================================================
