------------------------------- MODULE Identities -------------------------------
(***************************************************************************)
(* Who the members are: Members with their services and configurations,    *)
(* the GUIDs that serve as ids, the SecureBuffers that hold keys and the   *)
(* keys that come from passwords.                                          *)
(***************************************************************************)
EXTENDS Members, Guids, SecureBuffers, Passwords

vars == <<configurationVars, memberVars, guidVars, secureVars, passwordVars>>

Init == ConfigurationInit /\ MemberInit /\ GuidInit /\ SecureInit /\ PasswordInit

(* No member has used or changed its keys yet.                             *)
KeysAsMade ==
  /\ made = {} /\ streams = <<>>
  /\ \A m \in DOMAIN members :
       /\ members[m].privateKey = members[m].wallet
       /\ members[m].votingPublicKey = NoKeys
       /\ members[m].original = 0 => members[m].wallet # None

(* Bound: in a behaviour one of the four is used, the other three stay as  *)
(* they are at first; configurations are validated before members are      *)
(* made, members are made before they use their keys, which does not       *)
(* matter to the making, and builders are used only under the first        *)
(* configuration, keys also without a builder.                             *)
MembersNext ==
  \/ RegistryNext /\ KeysAsMade /\ builder = NewBuilder /\ UNCHANGED memberVars
  \/ ValidatorNext /\ MemberInit /\ services = {} /\ UNCHANGED memberVars
  \/ MakingNext /\ KeysAsMade /\ customInvariants = <<>> /\ UNCHANGED configurationVars
  \/ ConfigurationInit /\ KeysAsMade /\ BuilderNext /\ UNCHANGED configurationVars
  \/ ConfigurationInit /\ builder = NewBuilder /\ KeysNext /\ UNCHANGED configurationVars

Next ==
  \/ /\ GuidInit /\ SecureInit /\ PasswordInit
     /\ MembersNext
     /\ UNCHANGED <<guidVars, secureVars, passwordVars>>
  \/ /\ ConfigurationInit /\ MemberInit /\ SecureInit /\ PasswordInit
     /\ GuidNext
     /\ UNCHANGED <<configurationVars, memberVars, secureVars, passwordVars>>
  \/ /\ ConfigurationInit /\ MemberInit /\ GuidInit /\ PasswordInit
     /\ SecureNext
     /\ UNCHANGED <<configurationVars, memberVars, guidVars, passwordVars>>
  \/ /\ ConfigurationInit /\ MemberInit /\ GuidInit /\ SecureInit
     /\ PasswordNext
     /\ UNCHANGED <<configurationVars, memberVars, guidVars, secureVars>>

Spec == Init /\ [][Next]_vars

-----------------------------------------------------------------------------
(* GUIDs nobody has written to and SecureBuffers hold what was put into    *)
(* them: see GuidsKeepTheirValue, FormsComeBack and SecuresHold.           *)
BuffersHold == GuidsKeepTheirValue /\ FormsComeBack /\ SecuresHold
=============================================================================
