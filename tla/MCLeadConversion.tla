-------------------------- MODULE MCLeadConversion ---------------------------
(* Small instances of LeadConversion for TLC.                               *)
EXTENDS LeadConversion, TLC

CONSTANTS l1, l2, ann, bob, ivy, s1, s2, mail, tel

ByMail == [email |-> mail, phone |-> None]
ByTel  == [email |-> None, phone |-> tel]
Both   == [email |-> mail, phone |-> tel]
Nobody == [email |-> None, phone |-> None]

Ask(r, l, a, h) == [route |-> r, lead |-> l, actor |-> a, contact |-> h]

\* Two leads of one person at one house: the first is ivy's and came with an
\* e-mail, the second came without any contact.
OneHome   == [l \in Leads |-> s1]
TwoJobs   == [l \in Leads |-> IF l = l1 THEN s1 ELSE s2]
IvysLead  == [l \in Leads |-> IF l = l1 THEN ivy ELSE None]
HalfKnown == [l \in Leads |-> IF l = l1 THEN ByMail ELSE Nobody]
Texts     == {ByMail, ByTel}

Mixed ==
  {Ask("modern", l1, ann, Nobody), Ask("legacy", l1, ivy, Nobody),
   Ask("modern", l2, ann, Nobody), Ask("modern", l2, bob, Both)}

\* Two leads of one person, converted by the modern route.
Unowned    == [l \in Leads |-> None]
SamePerson == [l \in Leads |-> ByMail]
ModernOnly == {Ask("modern", l, ann, Nobody) : l \in {l1, l2}}
==============================================================================
