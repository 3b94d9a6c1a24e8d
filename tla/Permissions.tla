---------------------------- MODULE Permissions -----------------------------
(***************************************************************************)
(* Who may use a hub's share, and how: shared/permissions.ts, which the     *)
(* relay and the hub both evaluate, and hub/permissions.ts.                 *)
(*                                                                         *)
(* A permission blob is a record: the default level, and the levels that    *)
(* override it for single users (sub) and for groups.  A subject is a       *)
(* record of a user (sub) and the set of its groups.  Shares are a function *)
(* from the names in hub.yaml to records with a field "permissions".        *)
(***************************************************************************)
EXTENDS Naturals

Access == {"none", "read-only", "read-write"}

WriteTools == {"write_file", "edit_file", "create_directory", "delete", "move", "copy"}

\* The tools with a second path, which may lie in another share.
TwoPathTools == {"copy", "move"}

rank(access) ==
  CASE access = "read-write" -> 2
    [] access = "read-only"  -> 1
    [] OTHER                 -> 0

\* A level that is none of the three grants nothing.
knownAccess(access) == IF access \in Access THEN access ELSE "none"

MostPermissive(levels) ==
  CHOOSE a \in levels : \A b \in levels : rank(b) <= rank(a)

\* The user's own rule first, then the best rule of its groups, then the default.
resolveAccess(blob, subject) ==
  LET ofGroups == {blob.group[g] : g \in subject.groups \cap DOMAIN blob.group}
  IN CASE subject.sub \in DOMAIN blob.sub -> blob.sub[subject.sub]
       [] subject.sub \notin DOMAIN blob.sub /\ ofGroups # {} -> MostPermissive(ofGroups)
       [] OTHER -> blob.default

evaluatePermissionBlob(blob, subject) == knownAccess(resolveAccess(blob, subject))

checkPermission(subject, share, tool, shares) ==
  /\ share \in DOMAIN shares
  /\ LET access == evaluatePermissionBlob(shares[share].permissions, subject)
     IN /\ access \in {"read-only", "read-write"}
        /\ tool \in WriteTools => access = "read-write"

\* Both shares of a copy or a move.  Named is the set of the shares the call names.
checkRpcPermission(subject, named, tool, shares) ==
  \A share \in named : checkPermission(subject, share, tool, shares)

=============================================================================
