----------------------------- MODULE MCIniFile -----------------------------
(***************************************************************************)
(* IniFile with a path of every kind, and a file of each kind of access    *)
(* that changes what is granted.                                           *)
(***************************************************************************)
EXTENDS IniFile

Path(kind, read, write, parent) ==
  [kind |-> kind, access |-> [read |-> read, write |-> write, parent |-> parent]]
Usual(kind) == Path(kind, TRUE, TRUE, TRUE)

MCFiles ==
  {Usual(kind) : kind \in Kinds}
    \cup {Path("absent", FALSE, FALSE, FALSE), Path("good", TRUE, FALSE, TRUE),
          Path("bad", FALSE, TRUE, FALSE)}
=============================================================================
