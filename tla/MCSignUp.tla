------------------------------- MODULE MCSignUp ------------------------------
(* Instances of SignUp.  Contacts, user ids and request slots are symmetric.  *)
EXTENDS SignUp, TLC

(* Two addresses of one /64, and a v4 one wrapped in v6.                      *)
MCAddresses ==
    {[kind |-> "v6", net |-> "n1", host |-> h] : h \in {"h1", "h2"}}
        \cup {[kind |-> "mapped_v4", net |-> "n1", host |-> "h1"]}

(* Eighteen today, and eighteen tomorrow.                                     *)
MCToday == [year |-> 2018, month |-> 2, day |-> 28]
MCBirths == {[year |-> 2000, month |-> 2, day |-> d] : d \in {28, 29}}

MCSymmetry == Permutations(Users) \cup Permutations(Contacts) \cup Permutations(Requests)
=============================================================================
