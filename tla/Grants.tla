-------------------------------- MODULE Grants --------------------------------
(***************************************************************************)
(* auth/mod.rs: the scope policy that login, serve and doctor share, and   *)
(* auth/aadsts.rs: what an error of Entra means. A scope string is the set *)
(* of its short names, whatever their case, their escapes and their        *)
(* resource prefix; the configured scope is "Read" or "ReadWrite".         *)
(***************************************************************************)
EXTENDS Sequences, Naturals

ReadScope   == "Tasks.Read"
WriteScope  == "Tasks.ReadWrite"
AllScopes   == {"Tasks.Read.All", "Tasks.ReadWrite.All"}     \* any name that ends in .All

Requested(choice) ==
  {IF choice = "Read" THEN ReadScope ELSE WriteScope, "offline_access"}

ScopeGranted(scope, want) == want \in scope

\* Write before read, because it implies it; a .All name is neither.
GrantFromScope(scope) ==
  IF ScopeGranted(scope, WriteScope) THEN "ReadWrite"
  ELSE IF ScopeGranted(scope, ReadScope) THEN "ReadOnly" ELSE "None"

CappedAt(grant, ceiling) ==
  IF "None" \in {grant, ceiling} THEN "None"
  ELSE IF "ReadOnly" \in {grant, ceiling} THEN "ReadOnly" ELSE "ReadWrite"

Forbidden(granted) == granted \cap AllScopes

VetGrant(granted, requested) ==
  IF Forbidden(granted) # {} THEN "forbidden"
  ELSE LET grant == CappedAt(GrantFromScope(granted), GrantFromScope(requested))
       IN  IF grant = "None" THEN "noTasks" ELSE grant

Refusals == {"forbidden", "noTasks"}

--------------------------------------------------------------------------------
(***************************************************************************)
(* The codes of by_code, those of them that kill a refresh token, and the  *)
(* errors that pass by themselves.                                         *)
(***************************************************************************)
KnownCodes ==
  {7000218, 50194, 90094, 65001, 530036, 700016, 50105, 7000112, 70011, 70018, 70019, 70020,
   65004, 9002313, 70008, 700082, 7000215, 7000222, 900023, 500011}
DeadCodes == {530036, 70008, 700082}

TemporaryErrors == {"temporarily_unavailable", "server_error"}

Diagnosis(terminal, deleteToken) == [terminal |-> terminal, deleteToken |-> deleteToken]

ByCode(code)   == Diagnosis(TRUE, code \in DeadCodes)
ByError(error) == Diagnosis(error \notin TemporaryErrors, FALSE)

\* The first code that is known decides, and without one the error does.
Diagnose(codes, error) ==
  LET known == SelectSeq(codes, LAMBDA code : code \in KnownCodes)
  IN  IF known # <<>> THEN ByCode(Head(known)) ELSE ByError(error)

\* failure_from: the codes of the description stand in for a missing array.
FailureFrom(body) ==
  Diagnose(IF body.codes = <<>> THEN body.described ELSE body.codes, body.error)
================================================================================
