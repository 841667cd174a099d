------------------------------ MODULE MCServices ------------------------------
\* Instances of the components of Services, for TLC.
EXTENDS Services, TLC

CONSTANTS a, b, u1, u2, e1, e2, p1, p2, device, subnet

\* Requests are interchangeable, and so are users, addresses and passwords.
ServicesSymmetry ==
  UNION {Permutations(S) : S \in {Slots, Users, Emails, Passwords}}

=============================================================================
