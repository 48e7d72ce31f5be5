------------------------- MODULE MCCertificateTrust -------------------------
(* Model-checking instance of CertificateTrust: a root and one that         *)
(* expires, a foreign root of the same name, intermediates with, without    *)
(* and with the wrong key usage, and leaves below them.                     *)
EXTENDS CertificateTrust

Cert(id, subject, issuer, key, signer, ca, usage) ==
  [id |-> id, subject |-> subject, issuer |-> issuer, key |-> key, signer |-> signer,
   ca |-> ca, usage |-> usage, not_before |-> 0, not_after |-> Horizon, strict |-> TRUE]

Root == Cert(1, "A", "A", "a", "a", TRUE, "sign")
Expiring == [Cert(2, "B", "B", "b", "b", TRUE, "absent") EXCEPT !.not_after = 0]
Foreign == Cert(3, "A", "A", "f", "f", TRUE, "sign")
Issuer == Cert(4, "I", "A", "i", "a", TRUE, "sign")
Silent == Cert(5, "J", "I", "j", "i", TRUE, "absent")
Restricted == Cert(6, "K", "J", "k", "j", TRUE, "agree")
ByRoot == Cert(7, "L", "A", "l", "a", FALSE, "agree")
BySilent == Cert(8, "L", "J", "l", "j", FALSE, "absent")
ByRestricted == Cert(9, "L", "K", "l", "k", FALSE, "agree")
ByForeign == Cert(10, "L", "A", "l", "f", FALSE, "agree")
ByExpiring == Cert(11, "L", "B", "l", "b", FALSE, "agree")
Malformed == [ByRoot EXCEPT !.id = 12, !.strict = FALSE]
ByIssuer == Cert(13, "L", "I", "r", "i", FALSE, "sign")   \* an RSA key
Late == [ByRoot EXCEPT !.id = 14, !.not_before = 1]
Silent2 == Cert(15, "M", "A", "m", "a", TRUE, "absent")
BySilent2 == Cert(16, "L", "M", "l", "m", FALSE, "agree")

MCP256Keys == {"a", "b", "f", "i", "j", "k", "l", "m"}
Cas == {Root, Foreign, Issuer, Silent, Restricted, Silent2}
Leaves == {ByRoot, BySilent, ByRestricted, ByForeign, ByExpiring, ByIssuer, Late, BySilent2}
NoCa == [Root EXCEPT !.id = 17, !.ca = FALSE]
MCCertificates == Cas \cup Leaves \cup {Expiring, Malformed, NoCa}
MCConfigurations ==
  {<< >>, <<Root>>, <<Root, Root>>, <<Root, Silent>>, <<Silent, Root>>, <<Silent>>,
   <<Root, Expiring>>, <<Expiring, Root, Root>>, <<Root, Malformed>>, <<Root, Issuer>>,
   <<NoCa>>}
MCChains ==
  {<< >>} \cup {<<c>> : c \in Leaves \cup Cas \cup {Malformed}}
  \cup {<<c, d>> : c \in Cas, d \in Leaves \cup Cas}
  \cup {<<Issuer, c, d>> : c \in Cas \cup {ByIssuer}, d \in Leaves \cup {Issuer, Silent}}
  \cup {<<Issuer, Silent, c, d>> : c \in {Restricted, Silent, Silent2}, d \in Leaves}
  \cup {<<Issuer, Silent, Restricted, Root, ByRoot>>}
MCNamed == {Root, Issuer, Silent, Silent2, BySilent, Malformed}
MCPoints == {"a", "f", "r"}
=============================================================================
