----------------------------- MODULE Privileges -----------------------------
(***************************************************************************)
(* Owners and privileges of the copied objects (predata_acl.go and         *)
(* queries_acl.go): the aclitems read from the source catalogue are parsed *)
(* (ParseACL), collected per object (ConstructMetadataMap), and written as *)
(* REVOKE and GRANT statements for the destination.                        *)
(*                                                                         *)
(* A privilege is its aclitem letter.  A role is a number; Public stands   *)
(* for the empty grantee.  An aclitem is the grantee and the sequence of   *)
(* letters, in which "*" gives the letter before it the grant option.      *)
(***************************************************************************)
EXTENDS Integers, Sequences, TLC

Public == 0
NoRole == -1     \* the name GRANTEE that an empty access list is given

Letters == {"a", "r", "w", "d", "D", "x", "t", "X", "U", "C", "T", "c"}

Relation == {"TABLE", "VIEW", "MATERIALIZED VIEW", "FOREIGN TABLE"}

\* What GRANT ALL gives on an object of the type (external: the database).
AllRights(type) ==
  CASE type \in Relation -> {"r", "a", "w", "d", "D", "x", "t"}
    [] type = "SEQUENCE" -> {"r", "w", "U"}
    [] type \in {"FUNCTION", "AGGREGATE"} -> {"X"}
    [] type = "SCHEMA" -> {"U", "C"}
    [] type = "PROTOCOL" -> {"r", "a"}
    [] type = "TABLESPACE" -> {"C"}
    [] type \in {"TYPE", "DOMAIN", "LANGUAGE", "FOREIGN DATA WRAPPER",
                 "FOREIGN SERVER"} -> {"U"}
    [] OTHER -> {}

\* The letters are read one by one: a "*" moves the letter before it from
\* the plain privileges to the ones with grant option.
ParseACL(aclitem) ==
  LET perm == aclitem.perm
      Starred(i) == i < Len(perm) /\ perm[i + 1] = "*"
      At(P(_)) == {perm[i] : i \in {k \in DOMAIN perm : perm[k] # "*" /\ P(k)}}
  IN  [grantee |-> aclitem.grantee,
       plain |-> At(LAMBDA k : ~Starred(k)), grant |-> At(Starred)]

sortACLs(privileges) ==
  SortSeq(privileges, LAMBDA x, y : x.grantee < y.grantee)

\* The privileges of one object: none for a NULL access list, and a grantee
\* without privileges for an empty one.
ConstructMetadataMap(acl) ==
  IF acl.null THEN <<>>
  ELSE IF acl.items = <<>>
       THEN <<ParseACL([grantee |-> NoRole, perm |-> <<>>])>>
       ELSE sortACLs([i \in DOMAIN acl.items |-> ParseACL(acl.items[i])])

getMappedRole(ownerMap, role) ==
  IF role \in DOMAIN ownerMap THEN ownerMap[role] ELSE role

\* The privileges that hasAllPrivileges asks for; a type the switch does
\* not name never has them all.
HasAll(privs, type) ==
  CASE type \in Relation \ {"FOREIGN TABLE"} ->
         {"r", "a", "w", "d", "D", "x", "t"} \subseteq privs
    [] type = "FOREIGN TABLE" -> {"r", "a", "w", "d", "x", "t"} \subseteq privs
    [] type = "SEQUENCE" -> {"r", "w", "U"} \subseteq privs
    [] type = "FUNCTION" -> "X" \in privs
    [] type = "SCHEMA" -> {"U", "C"} \subseteq privs
    [] type = "PROTOCOL" -> {"r", "a"} \subseteq privs
    [] type = "TABLESPACE" -> "C" \in privs
    [] type \in {"TYPE", "LANGUAGE", "FOREIGN DATA WRAPPER",
                 "FOREIGN SERVER"} -> "U" \in privs
    [] OTHER -> FALSE

\* What one GRANT of createPrivilegeStrings gives: ALL, or the list of the
\* privileges, in which EXECUTE is never written.
createPrivilegeStrings(privs, type) ==
  IF HasAll(privs, type) THEN AllRights(type) ELSE privs \ {"X"}

\* Per grantee one GRANT of the plain privileges and one of those with grant
\* option; an empty list is not written.
Grants(ownerMap, privileges, type) ==
  LET Grant(a, privs, opt) ==
        [op |-> "GRANT", to |-> getMappedRole(ownerMap, a.grantee),
         privs |-> createPrivilegeStrings(privs, type), opt |-> opt]
      upTo[i \in 0..Len(privileges)] ==
        IF i = 0 THEN <<>>
        ELSE upTo[i - 1] \o
             <<Grant(privileges[i], privileges[i].plain, FALSE),
               Grant(privileges[i], privileges[i].grant, TRUE)>>
  IN  SelectSeq(upTo[Len(privileges)], LAMBDA g : g.privs # {})

Revoke(role) == [op |-> "REVOKE", to |-> role, privs |-> Letters, opt |-> FALSE]

\* (Variant: what PUBLIC holds by default is not revoked.)
KeepPublic(ownerMap, owner, privileges, type) ==
  IF privileges = <<>> THEN <<>>
  ELSE <<Revoke(getMappedRole(ownerMap, owner))>> \o
       Grants(ownerMap, privileges, type)

\* REVOKE ALL from PUBLIC and from the owner, then the grants; nothing for an
\* object whose access list is NULL.
GetPrivilegesStatements(ownerMap, owner, privileges, type) ==
  IF privileges = <<>> THEN <<>>
  ELSE <<Revoke(Public)>> \o
       (IF owner = NoRole THEN <<>>
        ELSE <<Revoke(getMappedRole(ownerMap, owner))>>) \o
       Grants(ownerMap, privileges, type)

GetOwnerStatement(ownerMap, owner) == getMappedRole(ownerMap, owner)

(***************************************************************************)
(* What the statements do at the destination (external).                   *)
(***************************************************************************)

\* The access list of an object that was never granted on.
DefaultRights(type, owner) ==
  {[to |-> owner, priv |-> p, opt |-> FALSE] : p \in AllRights(type)} \cup
  {[to |-> Public, priv |-> p, opt |-> FALSE] :
     p \in IF type \in {"FUNCTION", "AGGREGATE"} THEN {"X"}
           ELSE IF type \in {"TYPE", "DOMAIN", "LANGUAGE"} THEN {"U"} ELSE {}}

Apply(rights, g) ==
  IF g.op = "REVOKE" THEN {x \in rights : x.to # g.to}
  ELSE LET new == {[to |-> g.to, priv |-> p, opt |-> g.opt] : p \in g.privs}
       IN  {x \in rights : ~(g.opt /\ ~x.opt /\ [x EXCEPT !.opt = TRUE] \in new)} \cup
           {x \in new : [x EXCEPT !.opt = TRUE] \notin rights}

ApplyAll(rights, grants) ==
  LET after[i \in 0..Len(grants)] ==
        IF i = 0 THEN rights ELSE Apply(after[i - 1], grants[i])
  IN  after[Len(grants)]

=============================================================================
