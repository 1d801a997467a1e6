------------------------------ MODULE MCAccess ------------------------------
\* A small instance of Access.
EXTENDS Access, TLC
CONSTANTS a, g, h

Text(x, kind, code, whom) ==
  [from |-> x, private |-> TRUE, kind |-> kind, code |-> code, whom |-> whom]

\* Either a is the admin or h, who is a guest of a otherwise.
MCMessages ==
  {Text(x, "start", c, Nobody) : x \in {g, h}, c \in Codes}
    \union {Text(a, "invite", NoCode, Nobody), Text(h, "allow", NoCode, g),
            Text(g, "allow", NoCode, h), Text(h, "allow", NoCode, Nobody),
            [Text(g, "other", NoCode, Nobody) EXCEPT !.private = FALSE]}
MCAdminSets == {{a}, {h}}

Interchangeable == Permutations(Updates) \union Permutations(Codes)
=============================================================================
