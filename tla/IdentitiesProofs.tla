------------------------------ MODULE IdentitiesProofs ------------------------------
(***************************************************************************)
(* Theorems about Members, Guids, SecureBuffers and Passwords, for any     *)
(* values of their constants, any number of members, buffers, derivations  *)
(* and sealed buffers, and their steps in any order: the specifications    *)
(* of this module have no limit on what is done when, as Identities has,   *)
(* and the behaviours of Identities are among theirs.  The second half is  *)
(* about the numbers of VotingNumbers (powers, inverses, the primality     *)
(* test, Paillier encryption), and at the end come the theorems about      *)
(* IsolatedKeys, a system of its own.                                      *)
(***************************************************************************)
EXTENDS Identities, IsolatedKeys, SequenceTheorems, FiniteSetTheorems,
        WellFoundedInduction, TLAPS

(***************************************************************************)
(* Members.  What a member is made with never changes, so it is enough to  *)
(* say what the ways to make one have in common: ids are of the provider   *)
(* of the service, two members with one id have one public key, and every  *)
(* key a member holds is either the one of its public key or none.         *)
(***************************************************************************)
allVars == <<configurationVars, memberVars>>

MembersStep ==
  \/ (RegistryNext \/ ValidatorNext) /\ UNCHANGED memberVars
  \/ (MakingNext \/ BuilderNext \/ KeysNext) /\ UNCHANGED configurationVars

MembersSpec == ConfigurationInit /\ MemberInit /\ [][MembersStep]_allVars

-----------------------------------------------------------------------------
(* The types of the parts.                                                 *)
ServiceType == [constants : AllConfigurations, recipientIdSize : Nat]
IdType == [number : Nat, length : Nat]
KeyPairs == {NoKeys} \union (Nat \X Nat)

MemberType ==
  [service : ServiceType, id : IdType, creator : IdType, publicKey : Nat, privateKey : Nat,
   wallet : Nat, votingPublicKey : KeyPairs, votingPrivateKey : KeyPairs, original : Nat]

JsonType ==
  [provider : Providers, id : IdType, creator : IdType, publicKey : Nat, original : Nat]

StreamType(M) == [member : M, state : {"made", "open", "failed"}, key : Nat]

ConfigurationTypes ==
  /\ runtimeDefaults \in AllConfigurations /\ configurations \subseteq AllConfigurations
  /\ services \subseteq ServiceType
  /\ accepted \subseteq {c \in AllConfigurations : Check(c)}

MemberTypes ==
  /\ members \in Seq(MemberType)
  /\ mnemonics \in Nat
  /\ builder \in [service : SUBSET ServiceType, mnemonic : Nat, createdBy : SUBSET IdType]
  /\ json \subseteq JsonType
  /\ made \subseteq [kind : {"signature", "message"}, by : DOMAIN members, key : Nat]
  /\ streams \in Seq(StreamType(DOMAIN members))

(* A member's id is of its provider, and no id has a number still to come. *)
IdsOfProvider ==
  \A i \in DOMAIN members :
    /\ members[i].id.length = IdLength[members[i].service.constants.provider]
    /\ members[i].id.number \in 1 .. Len(members)

OneKeyPerId ==
  \A i, j \in DOMAIN members :
    members[i].id = members[j].id => members[i].publicKey = members[j].publicKey

SameAs(m, j) ==
  m.id = j.id /\ m.creator = j.creator /\ m.publicKey = j.publicKey

OriginalsRemain ==
  /\ \A i \in DOMAIN members : members[i].original # 0 =>
       /\ members[i].original \in DOMAIN members
       /\ SameAs(members[i], members[members[i].original])
  /\ \A j \in json :
       /\ j.original \in DOMAIN members /\ SameAs(j, members[j.original])
       /\ j.id.length = IdLength[j.provider]

OwnKeys(m) ==
  /\ m.privateKey \in {None, m.publicKey} /\ m.wallet \in {None, m.publicKey}
  /\ m.votingPublicKey \in {NoKeys, Derived(m.publicKey, m.publicKey)}
  /\ m.votingPrivateKey \in {NoKeys, m.votingPublicKey}

KeysOwned ==
  /\ \A i \in DOMAIN members : OwnKeys(members[i])
  /\ \A i \in DOMAIN streams :
       streams[i].state = "open" => streams[i].key = members[streams[i].member].publicKey
  /\ \A s \in made : s.kind = "signature" => s.key = members[s.by].publicKey

MembersInv ==
  ConfigurationTypes /\ MemberTypes /\ IdsOfProvider /\ OneKeyPerId /\ OriginalsRemain /\ KeysOwned

-----------------------------------------------------------------------------
(* The parts of what the operators of Configurations and Members make.     *)

(* Two of the sizes of a configuration are those of its provider.          *)
LEMMA Lengths ==
  /\ \A p \in Providers : IdLength[p] \in Nat
  /\ \A c \in AllConfigurations :
       /\ c.provider \in Providers
       /\ c.memberIdLength = IdLength[c.provider] /\ c.recipientIdSize = IdLength[c.provider]
       /\ c.encryptionIdSize \in Nat
  /\ Constants \in AllConfigurations /\ Constants.provider = DefaultProvider
  /\ Constants.recipientIdSize = IdLength[DefaultProvider]
  /\ Constants.encryptionIdSize = IdLength[DefaultProvider]
  /\ Constants.encryptionIdSize # Absent
<1>1. \A p \in Providers : IdLength[p] \in Nat
  BY ProviderAssumption
<1>2. DefaultProvider \in Providers
  BY ProviderAssumption
<1>3. ASSUME NEW c \in AllConfigurations
      PROVE  /\ c.provider \in Providers
             /\ c.memberIdLength = IdLength[c.provider]
             /\ c.recipientIdSize = IdLength[c.provider] /\ c.encryptionIdSize \in Nat
  <2>1. PICK p \in Providers, e \in {IdLength[q] : q \in Providers} \union {Absent} :
          c = Configured(p, e)
    BY <1>3 DEF AllConfigurations, Overrides, BaseConfiguration
  <2>2. e \in Nat
    BY <1>1, <2>1 DEF Absent
  <2> QED
    BY <2>1, <2>2 DEF Configured
<1>4. Constants \in AllConfigurations
  BY <1>2 DEF Constants, AllConfigurations, Overrides
<1>5. IdLength[DefaultProvider] # Absent
  BY <1>2, ProviderAssumption DEF Absent
<1> QED
  BY <1>1, <1>3, <1>4, <1>5 DEF Constants, Configured

(* Services are made of a configuration and a size.                        *)
LEMMA MadeServices ==
  ASSUME runtimeDefaults \in AllConfigurations, NEW c \in AllConfigurations
  PROVE  /\ DefaultService \in ServiceType /\ ServiceFor(c) \in ServiceType
         /\ ServiceWithParameters(c) \in ServiceType /\ ContainerService(c) \in ServiceType
<1>1. Constants.recipientIdSize \in Nat /\ c.recipientIdSize \in Nat
  BY Lengths
<1> QED
  BY <1>1 DEF DefaultService, ServiceFor, ServiceWithParameters, ContainerService, ECIESService,
     ServiceType

(* What a member is made of.                                               *)
LEMMA MadeMember ==
  ASSUME NEW s \in ServiceType, NEW key \in Nat, NEW private \in Nat, NEW id \in IdType,
         NEW creator \in SUBSET IdType, NEW original \in Nat
  PROVE  LET m == MemberOf(s, key, private, id, creator, original)
         IN  /\ m \in MemberType
             /\ m.service = s /\ m.id = id /\ m.publicKey = key /\ m.privateKey = private
             /\ m.wallet = private /\ m.votingPublicKey = NoKeys /\ m.votingPrivateKey = NoKeys
             /\ m.original = original
             /\ \A x \in IdType : creator = {x} => m.creator = x
<1> DEFINE by == IF creator = Unset THEN id ELSE CHOOSE c \in creator : TRUE
<1>1. by \in IdType
  BY DEF Unset
<1>2. \A x \in IdType : creator = {x} => by = x
  BY DEF Unset
<1>3. NoKeys \in KeyPairs
  BY DEF KeyPairs
<1>4. MemberOf(s, key, private, id, creator, original) =
        [service |-> s, id |-> id, creator |-> by, publicKey |-> key, privateKey |-> private,
         wallet |-> private, votingPublicKey |-> NoKeys, votingPrivateKey |-> NoKeys,
         original |-> original]
  BY DEF MemberOf
<1> HIDE DEF by
<1> QED
  BY <1>1, <1>2, <1>3, <1>4 DEF MemberType

(* A new id has the next number and the length of the provider.            *)
LEMMA MadeId ==
  ASSUME MemberTypes, NEW s \in ServiceType
  PROVE  /\ NewId(s) \in IdType /\ NewId(s).number = Len(members) + 1
         /\ NewId(s).length = IdLength[s.constants.provider]
<1>1. s.constants \in AllConfigurations
  BY DEF ServiceType
<1>2. IdLength[s.constants.provider] \in Nat
  BY <1>1, Lengths
<1>3. Len(members) + 1 \in Nat
  BY DEF MemberTypes
<1> QED
  BY <1>2, <1>3 DEF NewId, IdType

(* A stream is the one of a member.                                        *)
LEMMA MembersOfStreams ==
  ASSUME MemberTypes, NEW i \in DOMAIN streams
  PROVE  streams[i] \in StreamType(DOMAIN members) /\ streams[i].member \in DOMAIN members
<1> DEFINE X == StreamType(DOMAIN members)
<1>1. streams \in Seq(X)
  BY DEF MemberTypes
<1> HIDE DEF X
<1>2. streams[i] \in X
  BY <1>1
<1> QED
  BY <1>2 DEF X, StreamType

-----------------------------------------------------------------------------
(* The kinds of steps.                                                     *)

(* A member that has an id of its own, or is the one it was written from.  *)
LEMMA Adding ==
  ASSUME MembersInv, NEW m \in MemberType, Add(m),
         m.id.length = IdLength[m.service.constants.provider],
         \/ m.original = 0 /\ m.id.number = Len(members) + 1
         \/ m.original \in DOMAIN members /\ SameAs(m, members[m.original]),
         OwnKeys(m),
         UNCHANGED configurationVars, UNCHANGED <<builder, json, made, streams>>,
         mnemonics' \in Nat
  PROVE  MembersInv'
<1> DEFINE n == Len(members)
<1>t. /\ members \in Seq(MemberType) /\ n \in Nat /\ DOMAIN members = 1 .. n
      /\ \A i \in 1 .. n : members[i] \in MemberType
  BY DEF MembersInv, MemberTypes
<1>1. /\ members' \in Seq(MemberType) /\ Len(members') = n + 1 /\ DOMAIN members' = 1 .. n + 1
      /\ members'[n + 1] = m /\ \A i \in 1 .. n : members'[i] = members[i]
  BY <1>t DEF Add
<1>2. /\ DOMAIN members \subseteq DOMAIN members' /\ n + 1 \notin DOMAIN members
      /\ \A i \in DOMAIN members' : i \in DOMAIN members \/ i = n + 1
      /\ \A i \in DOMAIN members : members'[i] = members[i]
  BY <1>t, <1>1
<1>3. ConfigurationTypes'
  BY DEF MembersInv, ConfigurationTypes, configurationVars
<1>4. MemberTypes'
  <2>1. made' \subseteq [kind : {"signature", "message"}, by : DOMAIN members', key : Nat]
    BY <1>2 DEF MembersInv, MemberTypes
  <2>2. streams' \in Seq(StreamType(DOMAIN members'))
    <3> DEFINE X == StreamType(DOMAIN members)
               Y == StreamType(DOMAIN members')
    <3>1. X \subseteq Y
      BY <1>2 DEF StreamType
    <3>2. streams \in Seq(X) /\ streams' = streams
      BY DEF MembersInv, MemberTypes
    <3> HIDE DEF X, Y
    <3>3. streams \in Seq(Y)
      BY <3>1, <3>2
    <3> QED
      BY <3>2, <3>3 DEF Y
  <2> QED
    BY <1>1, <2>1, <2>2 DEF MembersInv, MemberTypes
<1>5. IdsOfProvider'
  <2>1. \A i \in DOMAIN members : members[i].id.number \in 1 .. n
    BY DEF MembersInv, IdsOfProvider
  <2>2. m.id.number \in 1 .. n + 1
    <3>1. m.original \in DOMAIN members /\ SameAs(m, members[m.original])
            => m.id.number \in 1 .. n
      BY <2>1 DEF SameAs
    <3> QED
      BY <1>t, <3>1
  <2>3. \A i \in DOMAIN members' : members'[i].id.number \in 1 .. n + 1
    BY <1>t, <1>1, <1>2, <2>1, <2>2
  <2> QED
    BY <1>1, <1>2, <2>3 DEF MembersInv, IdsOfProvider
<1>6. OneKeyPerId'
  <2>1. \A i \in DOMAIN members : members[i].id = m.id => members[i].publicKey = m.publicKey
    <3>1. CASE m.id.number = n + 1
      <4>1. \A i \in DOMAIN members : members[i].id.number \in 1 .. n
        BY DEF MembersInv, IdsOfProvider
      <4> QED
        BY <1>t, <3>1, <4>1
    <3>2. CASE m.original \in DOMAIN members /\ SameAs(m, members[m.original])
      BY <3>2 DEF MembersInv, OneKeyPerId, SameAs
    <3> QED
      BY <3>1, <3>2
  <2> QED
    BY <1>1, <1>2, <2>1 DEF MembersInv, OneKeyPerId
<1>7. OriginalsRemain'
  <2>1. \A i \in DOMAIN members' : members'[i].original # 0 =>
          /\ members'[i].original \in DOMAIN members
          /\ SameAs(members'[i], members[members'[i].original])
    BY <1>1, <1>2 DEF MembersInv, OriginalsRemain
  <2> QED
    BY <1>2, <2>1 DEF MembersInv, OriginalsRemain
<1>8. KeysOwned'
  <2>1. \A i \in DOMAIN members' : OwnKeys(members'[i])
    BY <1>1, <1>2 DEF MembersInv, KeysOwned
  <2>2. \A i \in DOMAIN streams : streams[i].member \in DOMAIN members
    BY MembersOfStreams DEF MembersInv
  <2>3. \A s \in made : s.by \in DOMAIN members
    BY DEF MembersInv, MemberTypes
  <2> QED
    BY <1>2, <2>1, <2>2, <2>3 DEF MembersInv, KeysOwned
<1> QED
  BY <1>3, <1>4, <1>5, <1>6, <1>7, <1>8 DEF MembersInv

(* A member whose private keys or voting keys are others.                  *)
LEMMA Changing ==
  ASSUME MembersInv, NEW k \in DOMAIN members, NEW m \in MemberType, Set(k, m),
         m.service = members[k].service, m.original = members[k].original,
         SameAs(m, members[k]), OwnKeys(m), UNCHANGED configurationVars
  PROVE  MembersInv'
<1>t. members \in Seq(MemberType) /\ UNCHANGED <<mnemonics, builder, json, made, streams>>
  BY DEF MembersInv, MemberTypes, Set
<1>1. /\ members' \in Seq(MemberType) /\ Len(members') = Len(members)
      /\ DOMAIN members' = DOMAIN members
      /\ members'[k] = m /\ \A i \in DOMAIN members : i # k => members'[i] = members[i]
  BY <1>t DEF Set
<1>2. \A i \in DOMAIN members :
        /\ SameAs(members'[i], members[i]) /\ members'[i].service = members[i].service
        /\ members'[i].original = members[i].original
  BY <1>1 DEF SameAs
<1>3. ConfigurationTypes'
  BY DEF MembersInv, ConfigurationTypes, configurationVars
<1>4. MemberTypes'
  BY <1>t, <1>1 DEF MembersInv, MemberTypes
<1>5. IdsOfProvider' /\ OneKeyPerId'
  BY <1>1, <1>2 DEF MembersInv, IdsOfProvider, OneKeyPerId, SameAs
<1>6. OriginalsRemain'
  BY <1>t, <1>1, <1>2 DEF MembersInv, OriginalsRemain, SameAs
<1>7. KeysOwned'
  <2>1. \A i \in DOMAIN streams : streams[i].member \in DOMAIN members
    BY MembersOfStreams DEF MembersInv
  <2>2. \A s \in made : s.by \in DOMAIN members
    BY DEF MembersInv, MemberTypes
  <2>3. \A i \in DOMAIN members : OwnKeys(members'[i])
    BY <1>1 DEF MembersInv, KeysOwned
  <2> QED
    BY <1>t, <1>1, <1>2, <2>1, <2>2, <2>3 DEF MembersInv, KeysOwned, SameAs
<1> QED
  BY <1>3, <1>4, <1>5, <1>6, <1>7 DEF MembersInv

(* A step that leaves the members and what refers to them alone.           *)
LEMMA Elsewhere ==
  ASSUME MembersInv, UNCHANGED <<members, json, made, streams>>, ConfigurationTypes',
         mnemonics' \in Nat,
         builder' \in [service : SUBSET ServiceType, mnemonic : Nat, createdBy : SUBSET IdType]
  PROVE  MembersInv'
<1>1. MemberTypes' /\ IdsOfProvider' /\ OneKeyPerId'
  BY DEF MembersInv, MemberTypes, IdsOfProvider, OneKeyPerId
<1>2. OriginalsRemain' /\ KeysOwned'
  BY DEF MembersInv, OriginalsRemain, KeysOwned
<1> QED
  BY <1>1, <1>2 DEF MembersInv

-----------------------------------------------------------------------------
(* The invariant.                                                          *)

LEMMA MembersInitially == ConfigurationInit /\ MemberInit => MembersInv
<1> SUFFICES ASSUME ConfigurationInit, MemberInit PROVE MembersInv
  OBVIOUS
<1>1. ConfigurationTypes
  BY Lengths DEF ConfigurationInit, ConfigurationTypes
<1>2. members = <<>> /\ DOMAIN members = {} /\ streams = <<>> /\ DOMAIN streams = {}
      /\ json = {} /\ made = {}
  BY DEF MemberInit, Unset
<1>3. builder \in [service : SUBSET ServiceType, mnemonic : Nat, createdBy : SUBSET IdType]
  BY DEF MemberInit, NewBuilder, Unset, None
<1>4. MemberTypes
  BY <1>2, <1>3 DEF MemberInit, MemberTypes
<1> QED
  BY <1>1, <1>2, <1>4
  DEF MembersInv, IdsOfProvider, OneKeyPerId, OriginalsRemain, KeysOwned

LEMMA RegistryKeeps == MembersInv /\ RegistryNext /\ UNCHANGED memberVars => MembersInv'
<1> SUFFICES ASSUME MembersInv, RegistryNext, UNCHANGED memberVars PROVE MembersInv'
  OBVIOUS
<1>1. /\ runtimeDefaults \in AllConfigurations /\ configurations \subseteq AllConfigurations
      /\ services \subseteq ServiceType /\ accepted \subseteq {c \in AllConfigurations : Check(c)}
  BY DEF MembersInv, ConfigurationTypes
<1>2. ASSUME NEW s \in ServiceType, NewService(s) PROVE ConfigurationTypes'
  BY <1>1, <1>2 DEF NewService, ConfigurationTypes
<1>3. ASSUME NEW c \in AllConfigurations,
             CreateNodeRuntimeConfiguration(c) \/ RegisterNodeRuntimeConfiguration(c)
      PROVE  ConfigurationTypes'
  BY <1>1, <1>3
  DEF CreateNodeRuntimeConfiguration, RegisterNodeRuntimeConfiguration, ConfigurationTypes
<1>4. \A c \in AllConfigurations :
        /\ DefaultService \in ServiceType /\ ServiceFor(c) \in ServiceType
        /\ ServiceWithParameters(c) \in ServiceType /\ ContainerService(c) \in ServiceType
  BY <1>1, MadeServices
<1>5. DefaultService \in ServiceType
  BY <1>4, Lengths
<1>6. ConfigurationTypes'
  BY <1>1, <1>2, <1>3, <1>4, <1>5 DEF RegistryNext, AllConfigurations
<1>7. UNCHANGED <<members, json, made, streams, mnemonics, builder>>
  BY DEF memberVars
<1> QED
  BY <1>6, <1>7, Elsewhere DEF MembersInv, MemberTypes

LEMMA ValidatorKeeps == MembersInv /\ ValidatorNext /\ UNCHANGED memberVars => MembersInv'
<1> SUFFICES ASSUME MembersInv, ValidatorNext, UNCHANGED memberVars PROVE MembersInv'
  OBVIOUS
<1>1. UNCHANGED <<runtimeDefaults, configurations, services>>
  BY DEF ValidatorNext, RegisterInvariant, UnregisterInvariant, ClearCustomInvariants, ValidateAll
<1>2. accepted' = accepted \/ \E c \in configurations : Check(c) /\ accepted' = accepted \union {c}
  BY DEF ValidatorNext, RegisterInvariant, UnregisterInvariant, ClearCustomInvariants, ValidateAll
<1>3. ConfigurationTypes'
  BY <1>1, <1>2 DEF MembersInv, ConfigurationTypes
<1>4. UNCHANGED <<members, json, made, streams, mnemonics, builder>>
  BY DEF memberVars
<1> QED
  BY <1>3, <1>4, Elsewhere DEF MembersInv, MemberTypes

(* Members that are made new, whoever calls.                               *)
LEMMA NewMemberKeeps ==
  ASSUME MembersInv, UNCHANGED configurationVars, NEW s \in ServiceType, NEW k \in Nat,
         NEW by \in SUBSET IdType, NewMember(s, k, by) \/ FromMnemonic(s, k)
  PROVE  MembersInv'
<1> DEFINE creator == IF NewMember(s, k, by) THEN by ELSE Unset
           m == MemberOf(s, k, k, NewId(s), creator, 0)
<1>1. creator \in SUBSET IdType
  BY DEF Unset
<1>2. /\ NewId(s) \in IdType /\ NewId(s).number = Len(members) + 1
      /\ NewId(s).length = IdLength[s.constants.provider]
  BY MadeId DEF MembersInv
<1>3. Add(m) /\ UNCHANGED <<builder, json, made, streams>> /\ mnemonics' \in Nat
  BY DEF NewMember, FromMnemonic, Generated, MembersInv, MemberTypes
<1> HIDE DEF creator
<1>4. /\ m \in MemberType /\ m.service = s /\ m.id = NewId(s) /\ m.publicKey = k
      /\ m.privateKey = k /\ m.wallet = k /\ m.votingPublicKey = NoKeys
      /\ m.votingPrivateKey = NoKeys /\ m.original = 0
  BY <1>1, <1>2, MadeMember
<1> HIDE DEF m
<1>5. OwnKeys(m)
  BY <1>4 DEF OwnKeys
<1> QED
  BY <1>2, <1>3, <1>4, <1>5, Adding

(* A member that is read.                                                  *)
LEMMA FromJsonKeeps ==
  ASSUME MembersInv, UNCHANGED configurationVars, NEW s \in ServiceType, FromJson(s)
  PROVE  MembersInv'
<1> PICK j \in json :
      /\ Deserializes(s, j)
      /\ Add(MemberOf(s, j.publicKey, None, j.id, {j.creator}, j.original))
  BY DEF FromJson
<1> DEFINE m == MemberOf(s, j.publicKey, None, j.id, {j.creator}, j.original)
<1>1. /\ j.id \in IdType /\ j.creator \in IdType /\ j.publicKey \in Nat /\ j.original \in Nat
  BY DEF MembersInv, MemberTypes, JsonType
<1>2. /\ m \in MemberType /\ m.service = s /\ m.id = j.id /\ m.publicKey = j.publicKey
      /\ m.privateKey = None /\ m.wallet = None /\ m.votingPublicKey = NoKeys
      /\ m.votingPrivateKey = NoKeys /\ m.original = j.original /\ m.creator = j.creator
  <2>1. {j.creator} \in SUBSET IdType /\ None \in Nat
    BY <1>1 DEF None
  <2> QED
    BY <1>1, <2>1, MadeMember
<1>3. Add(m) /\ UNCHANGED <<builder, json, made, streams>> /\ mnemonics' \in Nat
  BY DEF FromJson, MembersInv, MemberTypes
<1> HIDE DEF m
<1>4. /\ j.original \in DOMAIN members /\ SameAs(j, members[j.original])
      /\ j.id.length = IdLength[j.provider]
  BY DEF MembersInv, OriginalsRemain
<1>5. SameAs(m, members[m.original]) /\ m.id.length = IdLength[m.service.constants.provider]
  <2>1. IdLength[s.constants.provider] = IdLength[j.provider]
    BY ProviderAssumption DEF Deserializes
  <2> QED
    BY <1>2, <1>4, <2>1 DEF SameAs
<1>6. OwnKeys(m)
  BY <1>2 DEF OwnKeys
<1> QED
  BY <1>2, <1>3, <1>4, <1>5, <1>6, Adding

(* A member is written.                                                    *)
LEMMA ToJsonKeeps ==
  ASSUME MembersInv, UNCHANGED configurationVars, NEW k \in DOMAIN members, ToJson(k)
  PROVE  MembersInv'
<1>t. /\ members[k] \in MemberType /\ k \in Nat /\ members \in Seq(MemberType)
      /\ members[k].service.constants \in AllConfigurations
  <2>1. members \in Seq(MemberType)
    BY DEF MembersInv, MemberTypes
  <2>2. members[k] \in MemberType /\ k \in Nat
    BY <2>1
  <2> QED
    BY <2>1, <2>2 DEF MemberType, ServiceType
<1> DEFINE j == JsonOf(k)
<1>1. /\ j.provider = members[k].service.constants.provider /\ j.original = k
      /\ SameAs(j, members[k])
  BY DEF JsonOf, SameAs
<1>2. j \in JsonType
  BY <1>t, Lengths DEF JsonOf, JsonType, MemberType
<1>3. j.id.length = IdLength[j.provider]
  BY <1>1 DEF ToJson, Serializes, SameAs
<1> HIDE DEF j
<1>4. json' = {j} /\ UNCHANGED <<members, mnemonics, builder, made, streams>>
  BY DEF ToJson, j
<1>5. ConfigurationTypes'
  BY DEF MembersInv, ConfigurationTypes, configurationVars
<1>6. MemberTypes' /\ IdsOfProvider' /\ OneKeyPerId' /\ KeysOwned'
  BY <1>2, <1>4 DEF MembersInv, MemberTypes, IdsOfProvider, OneKeyPerId, KeysOwned
<1>7. OriginalsRemain'
  BY <1>1, <1>3, <1>4 DEF MembersInv, OriginalsRemain
<1> QED
  BY <1>5, <1>6, <1>7 DEF MembersInv

(* The services that members are made with.                                *)
LEMMA ServicesThereAre == ASSUME MembersInv PROVE Services \subseteq ServiceType
<1>1. runtimeDefaults \in AllConfigurations /\ services \subseteq ServiceType
  BY DEF MembersInv, ConfigurationTypes
<1>2. DefaultService \in ServiceType
  BY <1>1, Lengths, MadeServices
<1> QED
  BY <1>1, <1>2 DEF Services

LEMMA CreatorsAreIds == Creators \subseteq IdType
  BY Lengths DEF Creators, IdType

LEMMA MakingKeeps == MembersInv /\ MakingNext /\ UNCHANGED configurationVars => MembersInv'
<1> SUFFICES ASSUME MembersInv, MakingNext, UNCHANGED configurationVars PROVE MembersInv'
  OBVIOUS
<1>1. \A k \in 1 .. MaxMnemonics : k \in Nat
  OBVIOUS
<1>2. \A k \in Mnemonics : k \in Nat
  BY DEF Mnemonics
<1>3. \A by \in {Unset} \union {{c} : c \in Creators} : by \in SUBSET IdType
  BY CreatorsAreIds DEF Unset
<1>4. CASE \E s \in Services, k \in 1 .. MaxMnemonics, by \in {Unset} \union {{c} : c \in Creators} :
             NewMember(s, k, by)
  BY <1>1, <1>3, <1>4, ServicesThereAre, NewMemberKeeps
<1>5. CASE \E s \in Services, k \in Mnemonics : FromMnemonic(s, k)
  <2> PICK s \in Services, k \in Mnemonics : FromMnemonic(s, k)
    BY <1>5
  <2>1. {} \in SUBSET IdType /\ s \in ServiceType /\ k \in Nat
    BY <1>2, ServicesThereAre
  <2> QED
    BY <2>1, NewMemberKeeps
<1>6. CASE \E s \in Services : FromJson(s)
  BY <1>6, ServicesThereAre, FromJsonKeeps
<1>7. CASE \E k \in 1 .. MaxMnemonics : BuilderNewMember(k, Unset) \/ NewMemberWithTypedId(k, Unset)
  <2> PICK k \in 1 .. MaxMnemonics : BuilderNewMember(k, Unset) \/ NewMemberWithTypedId(k, Unset)
    BY <1>7
  <2>1. runtimeDefaults \in AllConfigurations
    BY DEF MembersInv, ConfigurationTypes
  <2>2. ServiceFor(Constants) \in ServiceType /\ ServiceFor(runtimeDefaults) \in ServiceType
    BY <2>1, Lengths, MadeServices
  <2>3. Unset \in SUBSET IdType /\ k \in Nat
    BY <1>1 DEF Unset
  <2>4. \E s \in ServiceType : NewMember(s, k, Unset)
    BY <2>2 DEF BuilderNewMember, NewMemberWithTypedId, CreateNodeObjectIdConfiguration
  <2> QED
    BY <2>3, <2>4, NewMemberKeeps
<1>8. CASE \E k \in DOMAIN members : ToJson(k)
  BY <1>8, ToJsonKeeps
<1> QED
  BY <1>4, <1>5, <1>6, <1>7, <1>8 DEF MakingNext

LEMMA BuilderKeeps == MembersInv /\ BuilderNext /\ UNCHANGED configurationVars => MembersInv'
<1> SUFFICES ASSUME MembersInv, BuilderNext, UNCHANGED configurationVars PROVE MembersInv'
  OBVIOUS
<1> DEFINE BuilderType == [service : SUBSET ServiceType, mnemonic : Nat, createdBy : SUBSET IdType]
<1>t. builder \in BuilderType /\ mnemonics \in Nat
  BY DEF MembersInv, MemberTypes
<1>1. CASE Build
  <2> PICK s \in builder.service :
         NewMember(s, IF builder.mnemonic = None THEN Generated ELSE builder.mnemonic,
                   builder.createdBy)
    BY <1>1 DEF Build
  <2> DEFINE k == IF builder.mnemonic = None THEN Generated ELSE builder.mnemonic
  <2>1. s \in ServiceType /\ builder.createdBy \in SUBSET IdType
    BY <1>t
  <2>2. k \in Nat
    BY <1>t DEF Generated
  <2> HIDE DEF k
  <2> QED
    BY <2>1, <2>2, NewMemberKeeps DEF k
<1>2. CASE ~Build
  <2>1. UNCHANGED <<members, json, made, streams>> /\ mnemonics' \in Nat
    BY <1>2, <1>t
    DEF BuilderNext, WithEciesService, WithMnemonic, WithCreatedBy, GenerateMnemonic, Generated
  <2>2. builder' \in BuilderType
    <3>1. ASSUME NEW s \in Services, WithEciesService(s) PROVE builder' \in BuilderType
      BY <3>1, <1>t, ServicesThereAre DEF WithEciesService
    <3>2. ASSUME NEW k \in Mnemonics, WithMnemonic(k) PROVE builder' \in BuilderType
      BY <3>2, <1>t DEF WithMnemonic, Mnemonics
    <3>3. ASSUME NEW c \in Creators, WithCreatedBy(c) PROVE builder' \in BuilderType
      BY <3>3, <1>t, CreatorsAreIds DEF WithCreatedBy
    <3>4. ASSUME GenerateMnemonic PROVE builder' \in BuilderType
      BY <3>4, <1>t DEF GenerateMnemonic, Generated
    <3> QED
      BY <1>2, <3>1, <3>2, <3>3, <3>4 DEF BuilderNext
  <2>3. ConfigurationTypes'
    BY DEF MembersInv, ConfigurationTypes, configurationVars
  <2> QED
    BY <2>1, <2>2, <2>3, Elsewhere
<1> QED
  BY <1>1, <1>2

(* Loading, unloading and deriving.                                        *)
LEMMA LoadingKeeps ==
  ASSUME MembersInv, UNCHANGED configurationVars, NEW m \in DOMAIN members, NEW k \in Nat,
         LoadWallet(m, k) \/ UnloadWallet(m) \/ UnloadPrivateKey(m) \/ UnloadVotingPrivateKey(m)
           \/ Dispose(m) \/ DeriveVotingKeys(m)
  PROVE  MembersInv'
<1> DEFINE x == members[m]
<1>1. x \in MemberType /\ OwnKeys(x)
  <2>1. members \in Seq(MemberType)
    BY DEF MembersInv, MemberTypes
  <2> QED
    BY <2>1 DEF MembersInv, KeysOwned
<1> HIDE DEF x
<1> DEFINE Fine(y) == /\ y \in MemberType /\ y.service = x.service /\ y.original = x.original
                      /\ SameAs(y, x) /\ OwnKeys(y)
<1>n. None \in Nat /\ NoKeys \in KeyPairs
  BY DEF None, KeyPairs
<1>2. k = x.publicKey => Fine([x EXCEPT !.wallet = k, !.privateKey = k])
  BY <1>1 DEF MemberType, SameAs, OwnKeys
<1>3. /\ Fine([x EXCEPT !.wallet = None]) /\ Fine([x EXCEPT !.privateKey = None])
      /\ Fine([x EXCEPT !.votingPrivateKey = NoKeys])
      /\ Fine([x EXCEPT !.wallet = None, !.privateKey = None, !.votingPrivateKey = NoKeys])
  BY <1>1, <1>n DEF MemberType, SameAs, OwnKeys
<1>4. ASSUME x.privateKey # None
      PROVE  LET d == Derived(x.privateKey, x.publicKey)
             IN  Fine([x EXCEPT !.votingPublicKey = d, !.votingPrivateKey = d])
  <2> DEFINE d == Derived(x.privateKey, x.publicKey)
  <2>1. x.privateKey = x.publicKey /\ x.publicKey \in Nat
    BY <1>1, <1>4 DEF OwnKeys, MemberType
  <2>2. d = Derived(x.publicKey, x.publicKey) /\ d \in KeyPairs
    BY <2>1 DEF Derived, KeyPairs
  <2> HIDE DEF d
  <2>3. Fine([x EXCEPT !.votingPublicKey = d, !.votingPrivateKey = d])
    BY <1>1, <2>2 DEF MemberType, SameAs, OwnKeys
  <2> QED
    BY <2>3 DEF d
<1>5. \E y : Fine(y) /\ Set(m, y)
  BY <1>2, <1>3, <1>4
  DEF x, LoadWallet, UnloadWallet, UnloadPrivateKey, UnloadVotingPrivateKey, Dispose,
      DeriveVotingKeys
<1> QED
  BY <1>5, Changing DEF x

(* What is made with keys.                                                 *)
LEMMA MakingThingsKeeps ==
  ASSUME MembersInv, UNCHANGED configurationVars, NEW m \in DOMAIN members,
         NEW kind \in {"signature", "message"}, NEW key \in Nat, Make(m, kind, key),
         kind = "signature" => key = members[m].publicKey
  PROVE  MembersInv'
<1> DEFINE thing == [kind |-> kind, by |-> m, key |-> key]
<1>1. made' = made \union {thing} /\ UNCHANGED <<members, mnemonics, builder, json, streams>>
  BY DEF Make
<1>2. thing \in [kind : {"signature", "message"}, by : DOMAIN members, key : Nat]
  OBVIOUS
<1>3. thing.kind = "signature" => thing.key = members[thing.by].publicKey
  OBVIOUS
<1> HIDE DEF thing
<1>4. ConfigurationTypes' /\ MemberTypes'
  BY <1>1, <1>2 DEF MembersInv, ConfigurationTypes, MemberTypes, configurationVars
<1>5. IdsOfProvider' /\ OneKeyPerId' /\ OriginalsRemain'
  BY <1>1 DEF MembersInv, IdsOfProvider, OneKeyPerId, OriginalsRemain
<1>6. KeysOwned'
  BY <1>1, <1>3 DEF MembersInv, KeysOwned
<1> QED
  BY <1>4, <1>5, <1>6 DEF MembersInv

(* Streams that are made and started.                                      *)
LEMMA StreamsKeep ==
  ASSUME MembersInv, UNCHANGED configurationVars,
         \/ \E m \in DOMAIN members : DecryptDataStream(m)
         \/ \E i \in DOMAIN streams : StartStream(i)
  PROVE  MembersInv'
<1> DEFINE X == StreamType(DOMAIN members)
<1>t. /\ streams \in Seq(X) /\ UNCHANGED <<members, mnemonics, builder, json, made>>
      /\ \A i \in DOMAIN members : members[i].privateKey \in Nat
           /\ members[i].privateKey \in {None, members[i].publicKey}
  <2>1. members \in Seq(MemberType)
    BY DEF MembersInv, MemberTypes
  <2>2. \A i \in DOMAIN members : members[i] \in MemberType /\ OwnKeys(members[i])
    BY <2>1 DEF MembersInv, KeysOwned
  <2>3. \A i \in DOMAIN members : members[i].privateKey \in Nat
           /\ members[i].privateKey \in {None, members[i].publicKey}
    BY <2>2 DEF MemberType, OwnKeys
  <2> QED
    BY <2>3 DEF MembersInv, MemberTypes, DecryptDataStream, StartStream
<1> DEFINE Told(x) == x.state = "open" => x.key = members[x.member].publicKey
<1>o. \A i \in DOMAIN streams : Told(streams[i])
  BY DEF MembersInv, KeysOwned
<1>1. streams' \in Seq(X) /\ \A i \in DOMAIN streams' : Told(streams'[i])
  <2>1. ASSUME NEW m \in DOMAIN members, DecryptDataStream(m)
        PROVE  streams' \in Seq(X) /\ \A i \in DOMAIN streams' : Told(streams'[i])
    <3> DEFINE x == [member |-> m, state |-> "made", key |-> None]
    <3>1. x \in X /\ Told(x)
      BY DEF StreamType, None
    <3>2. streams' = Append(streams, x)
      BY <2>1 DEF DecryptDataStream
    <3> HIDE DEF x, X, Told
    <3>3. /\ streams' \in Seq(X)
          /\ \A i \in DOMAIN streams' :
               streams'[i] = x \/ (i \in DOMAIN streams /\ streams'[i] = streams[i])
      <4>1. streams \in Seq(X) /\ x \in X
        BY <1>t, <3>1
      <4>2. /\ streams' \in Seq(X) /\ DOMAIN streams' = DOMAIN streams \union {Len(streams) + 1}
            /\ Len(streams) + 1 \notin DOMAIN streams
        BY <4>1, <3>2
      <4>3. streams'[Len(streams) + 1] = x
        BY <4>1, <3>2
      <4>4. ASSUME NEW i \in DOMAIN streams PROVE streams'[i] = streams[i]
        BY <4>1, <3>2
      <4>5. ASSUME NEW i \in DOMAIN streams'
            PROVE  streams'[i] = x \/ (i \in DOMAIN streams /\ streams'[i] = streams[i])
        <5>1. CASE i = Len(streams) + 1
          BY <5>1, <4>3
        <5>2. CASE i \in DOMAIN streams
          BY <5>2, <4>4
        <5> QED
          BY <5>1, <5>2, <4>2
      <4> QED
        BY <4>2, <4>5
    <3> QED
      BY <1>o, <3>1, <3>3
  <2>2. ASSUME NEW i \in DOMAIN streams, StartStream(i)
        PROVE  streams' \in Seq(X) /\ \A j \in DOMAIN streams' : Told(streams'[j])
    <3> DEFINE key == members[streams[i].member].privateKey
               x == [streams[i] EXCEPT !.state = IF key = None THEN "failed" ELSE "open", !.key = key]
    <3>1. streams[i] \in X /\ streams[i].member \in DOMAIN members
      BY MembersOfStreams DEF MembersInv
    <3>2. key \in Nat /\ key \in {None, members[streams[i].member].publicKey}
      BY <1>t, <3>1
    <3>3. x \in X /\ Told(x)
      <4> HIDE DEF key
      <4>1. x \in X /\ x.member = streams[i].member /\ x.key = key
            /\ x.state = IF key = None THEN "failed" ELSE "open"
        BY <3>1, <3>2 DEF StreamType
      <4> HIDE DEF x
      <4> QED
        BY <3>2, <4>1
    <3>4. streams' = [streams EXCEPT ![i] = x]
      BY <1>t, <2>2 DEF StartStream
    <3> HIDE DEF x, X, Told
    <3>5. /\ streams' \in Seq(X)
          /\ \A j \in DOMAIN streams' :
               streams'[j] = x \/ (j \in DOMAIN streams /\ streams'[j] = streams[j])
      <4>1. streams \in Seq(X) /\ x \in X
        BY <1>t, <3>3
      <4>2. streams' \in Seq(X) /\ DOMAIN streams' = DOMAIN streams
        BY <4>1, <3>4
      <4>3. \A j \in DOMAIN streams : streams'[j] = IF j = i THEN x ELSE streams[j]
        BY <4>1, <3>4
      <4>4. ASSUME NEW j \in DOMAIN streams'
            PROVE  streams'[j] = x \/ (j \in DOMAIN streams /\ streams'[j] = streams[j])
        <5>1. j \in DOMAIN streams
          BY <4>2
        <5>2. streams'[j] = IF j = i THEN x ELSE streams[j]
          BY <4>3, <5>1
        <5> QED
          BY <5>1, <5>2
      <4> QED
        BY <4>2, <4>4
    <3> QED
      BY <1>o, <3>3, <3>5
  <2> QED
    BY <2>1, <2>2
<1>2. ConfigurationTypes' /\ MemberTypes'
  BY <1>t, <1>1 DEF MembersInv, ConfigurationTypes, MemberTypes, configurationVars
<1>3. IdsOfProvider' /\ OneKeyPerId' /\ OriginalsRemain'
  BY <1>t DEF MembersInv, IdsOfProvider, OneKeyPerId, OriginalsRemain
<1>4. KeysOwned'
  BY <1>t, <1>1 DEF MembersInv, KeysOwned
<1> QED
  BY <1>2, <1>3, <1>4 DEF MembersInv

LEMMA KeysKeep == MembersInv /\ KeysNext /\ UNCHANGED configurationVars => MembersInv'
<1> SUFFICES ASSUME MembersInv, KeysNext, UNCHANGED configurationVars PROVE MembersInv'
  OBVIOUS
<1>t. /\ \A m \in DOMAIN members : members[m].publicKey \in Nat /\ members[m].privateKey \in Nat
           /\ members[m].privateKey \in {None, members[m].publicKey}
      /\ \A k \in Mnemonics : k \in Nat
  <2>1. members \in Seq(MemberType)
    BY DEF MembersInv, MemberTypes
  <2>2. \A i \in DOMAIN members : members[i] \in MemberType /\ OwnKeys(members[i])
    BY <2>1 DEF MembersInv, KeysOwned
  <2> QED
    BY <2>2 DEF MemberType, OwnKeys, Mnemonics
<1>1. CASE (\E m \in DOMAIN members : DecryptDataStream(m))
           \/ \E i \in DOMAIN streams : StartStream(i)
  BY <1>1, StreamsKeep
<1>2. ASSUME NEW m \in DOMAIN members, Sign(m) PROVE MembersInv'
  BY <1>2, <1>t, MakingThingsKeeps DEF Sign
<1>3. ASSUME NEW m \in DOMAIN members,
             EncryptData(m, {}) \/ \E k \in Mnemonics : EncryptData(m, {k})
      PROVE  MembersInv'
  <2>1. \A k : (CHOOSE key \in {k} : TRUE) = k
    OBVIOUS
  <2>2. \E k \in Nat : Make(m, "message", k)
    BY <1>3, <1>t, <2>1 DEF EncryptData
  <2> QED
    BY <2>2, MakingThingsKeeps
<1>4. ASSUME NEW m \in DOMAIN members,
             \/ \E k \in Mnemonics : LoadWallet(m, k)
             \/ UnloadWallet(m) \/ UnloadPrivateKey(m) \/ UnloadVotingPrivateKey(m) \/ Dispose(m)
             \/ DeriveVotingKeys(m)
      PROVE  MembersInv'
  <2>1. \E k \in Nat : LoadWallet(m, k) \/ UnloadWallet(m) \/ UnloadPrivateKey(m)
          \/ UnloadVotingPrivateKey(m) \/ Dispose(m) \/ DeriveVotingKeys(m)
    BY <1>4, <1>t
  <2> QED
    BY <2>1, LoadingKeeps
<1> QED
  BY <1>1, <1>2, <1>3, <1>4 DEF KeysNext

LEMMA MembersInvariant == MembersSpec => []MembersInv
<1>1. MembersInv /\ UNCHANGED allVars => MembersInv'
  BY DEF allVars, configurationVars, memberVars, MembersInv, ConfigurationTypes, MemberTypes,
     IdsOfProvider, OneKeyPerId, OriginalsRemain, KeysOwned
<1>2. MembersInv /\ [MembersStep]_allVars => MembersInv'
  BY <1>1, RegistryKeeps, ValidatorKeeps, MakingKeeps, BuilderKeeps, KeysKeep DEF MembersStep
<1> QED
  BY <1>2, MembersInitially, PTL DEF MembersSpec

-----------------------------------------------------------------------------
(* Theorems.                                                               *)

(* The behaviours of Identities are among those of MembersSpec.            *)
THEOREM MembersAmongIdentities == Spec => MembersSpec
<1>1. Init => ConfigurationInit /\ MemberInit
  BY DEF Init
<1>2. [Next]_vars => [MembersStep]_allVars
  <2> SUFFICES ASSUME [Next]_vars PROVE MembersStep \/ UNCHANGED allVars
    OBVIOUS
  <2>1. CASE MembersNext
    BY <2>1 DEF MembersNext, MembersStep
  <2>2. CASE UNCHANGED vars
    BY <2>2 DEF vars, allVars
  <2> QED
    BY <2>1, <2>2 DEF Next, allVars
<1> QED
  BY <1>1, <1>2, PTL DEF Spec, MembersSpec

(* A member of a service has an id of the provider's length and is a       *)
(* recipient of the messages of the service whenever the sizes agree       *)
(* (member.ts, multi-recipient.ts, constants.ts).                          *)
THEOREM MembersAlwaysReceive == MembersSpec => []MembersCanReceive
<1>1. MembersInv => MembersCanReceive
  <2> SUFFICES ASSUME MembersInv, NEW i \in DOMAIN members
               PROVE  LET m == members[i]
                          c == m.service.constants
                      IN  /\ m.id.length = IdLength[c.provider]
                          /\ m.service.recipientIdSize = c.recipientIdSize => Reaches(m.service, m)
                          /\ /\ m.service.recipientIdSize = Constants.recipientIdSize
                             /\ c \in accepted /\ c.encryptionIdSize = Constants.encryptionIdSize
                             => Reaches(m.service, m)
    BY DEF MembersCanReceive
  <2> DEFINE m == members[i]
             c == m.service.constants
  <2>1. c \in AllConfigurations
    <3>1. members \in Seq(MemberType)
      BY DEF MembersInv, MemberTypes
    <3>2. m \in MemberType
      BY <3>1
    <3> QED
      BY <3>2 DEF MemberType, ServiceType
  <2>2. m.id.length = IdLength[c.provider]
    BY DEF MembersInv, IdsOfProvider
  <2>3. c \in accepted => c.encryptionIdSize \in {IdLength[c.provider], Absent}
    BY DEF MembersInv, ConfigurationTypes, Check
  <2> HIDE DEF m, c
  <2>4. c.recipientIdSize = IdLength[c.provider]
    BY <2>1, Lengths
  <2>5. Constants.recipientIdSize = Constants.encryptionIdSize
        /\ Constants.encryptionIdSize # Absent
    BY Lengths
  <2> QED
    BY <2>2, <2>3, <2>4, <2>5 DEF Reaches, m, c
<1> QED
  BY <1>1, MembersInvariant, PTL

(* A member read from JSON is the one that was written, and two members    *)
(* with one id have one key (member.ts toJson and fromJson).               *)
THEOREM JsonAlwaysComesBack == MembersSpec => []JsonComesBack
<1>1. MembersInv => JsonComesBack
  BY DEF MembersInv, OriginalsRemain, SameAs, OneKeyPerId, KeysOwned, OwnKeys, JsonComesBack, Decrypts
<1> QED
  BY <1>1, MembersInvariant, PTL

(* Whatever is loaded, unloaded, derived and disposed of, in whatever      *)
(* order, every key a member or a stream holds is its own (member.ts).     *)
THEOREM KeysAlwaysBelong == MembersSpec => []KeysBelongToMember
<1>1. MembersInv => KeysBelongToMember
  <2> SUFFICES ASSUME MembersInv PROVE KeysBelongToMember
    OBVIOUS
  <2>1. \A i \in DOMAIN members : OwnKeys(members[i])
    BY DEF MembersInv, KeysOwned
  <2>2. \A i \in DOMAIN streams :
          streams[i].state = "open" => streams[i].key = members[streams[i].member].publicKey
    BY DEF MembersInv, KeysOwned
  <2>3. \A s \in made, i \in DOMAIN members :
          IF s.kind = "signature"
          THEN Verifies(i, s) <=> members[i].publicKey = members[s.by].publicKey
          ELSE Decrypts(i, s.key) <=> members[i].publicKey = s.key /\ members[i].privateKey # None
    BY <2>1 DEF MembersInv, KeysOwned, OwnKeys, Verifies, Decrypts
  <2> QED
    BY <2>1, <2>2, <2>3 DEF KeysBelongToMember, OwnKeys
<1> QED
  BY <1>1, MembersInvariant, PTL

-----------------------------------------------------------------------------
(***************************************************************************)
(* Guids and SecureBuffers.  A GuidBuffer has a cell of memory of its own, *)
(* and what it keeps from earlier is what is in the cell as long as nobody *)
(* has written to it.  What a SecureBuffer keeps follows from its data,    *)
(* whether it is disposed of, and its id.                                  *)
(***************************************************************************)
BuffersSpec ==
  GuidInit /\ SecureInit /\ [][GuidNext]_guidVars /\ [][SecureNext]_secureVars

-----------------------------------------------------------------------------
(* GUIDs.                                                                  *)
GuidBytes == Given \union {"nil"}
Forms == GuidBytes \union {Unread}
Versions == {NoVersion, 0, 1, 4}

GuidType ==
  [cell : Nat, fullHex : Forms, shortHex : Forms, base64 : Forms, version : Versions,
   given : GuidBytes, written : BOOLEAN]

(* Nobody else has the cell of r; what r keeps is in the cell, v.          *)
Keeps(r, v) ==
  ~r.written => /\ v = r.given
                /\ r.version \in {NoVersion, GetVersion(v)}
                /\ r.fullHex \in {Unread, v} /\ r.shortHex \in {Unread, v}
                /\ r.base64 \in {Unread, v}

GuidsInv ==
  /\ memory \in Seq(GuidBytes) /\ guids \in Seq(GuidType)
  /\ Len(memory) = Len(guids)
  /\ \A g \in DOMAIN guids : guids[g].cell = g /\ Keeps(guids[g], memory[g])

LEMMA VersionOfValue == \A v : GetVersion(v) \in Versions
  BY DEF GetVersion, Versions

(* A new GuidBuffer, on a cell of its own.                                 *)
LEMMA GuidMakingKeeps ==
  ASSUME NEW old \in Seq(GuidType), NEW v \in GuidBytes, NEW n \in {NoVersion, GetVersion(v)},
         memory \in Seq(GuidBytes), Len(memory) = Len(old),
         \A g \in DOMAIN old : old[g].cell = g /\ Keeps(old[g], memory[g]),
         memory' = Append(memory, v), guids' = Append(old, GuidOn(Len(memory) + 1, v, n))
  PROVE  GuidsInv'
<1> DEFINE r == GuidOn(Len(memory) + 1, v, n)
<1>1. /\ r \in GuidType /\ r.cell = Len(old) + 1 /\ Keeps(r, v)
  <2>1. n \in Versions /\ Unread \in Forms /\ Len(memory) + 1 \in Nat
    BY VersionOfValue DEF Versions, Forms
  <2> QED
    BY <2>1 DEF GuidOn, GuidType, Keeps, Forms
<1> HIDE DEF r
<1>2. memory' \in Seq(GuidBytes) /\ guids' \in Seq(GuidType) /\ Len(memory') = Len(guids')
  BY <1>1 DEF r
<1>3. /\ DOMAIN guids' = DOMAIN old \union {Len(old) + 1} /\ Len(old) + 1 \notin DOMAIN old
      /\ guids'[Len(old) + 1] = r /\ memory'[Len(old) + 1] = v
  BY <1>1 DEF r
<1>4. \A g \in DOMAIN old : guids'[g] = old[g] /\ memory'[g] = memory[g]
  BY <1>1 DEF r
<1>5. ASSUME NEW g \in DOMAIN guids' PROVE guids'[g].cell = g /\ Keeps(guids'[g], memory'[g])
  <2>1. CASE g = Len(old) + 1
    BY <2>1, <1>1, <1>3
  <2>2. CASE g \in DOMAIN old
    BY <2>2, <1>4
  <2> QED
    BY <2>1, <2>2, <1>3
<1> QED
  BY <1>2, <1>5 DEF GuidsInv, Keeps

(* A form that is asked for, and kept from then on.                        *)
AfterAsking(g, field) == [guids EXCEPT ![g][field] = Cached(g, field)]

LEMMA AskingKeeps ==
  ASSUME GuidsInv, NEW g \in DOMAIN guids, NEW field \in {"fullHex", "shortHex", "base64"}
  PROVE  LET after == AfterAsking(g, field)
         IN  /\ Cached(g, field) \in GuidBytes
             /\ after \in Seq(GuidType) /\ Len(after) = Len(guids)
             /\ \A h \in DOMAIN after : after[h].cell = h /\ Keeps(after[h], memory[h])
<1> DEFINE v == Cached(g, field)
<1>1. guids[g] \in GuidType /\ guids[g].cell = g /\ memory[g] \in GuidBytes
      /\ Keeps(guids[g], memory[g])
  BY DEF GuidsInv
<1> DEFINE after == AfterAsking(g, field)
<1>2. v \in GuidBytes /\ (~guids[g].written => v = memory[g])
  BY <1>1 DEF Cached, Bytes, Keeps, GuidType, Forms
<1> HIDE DEF v
<1> DEFINE r == [guids[g] EXCEPT ![field] = v]
<1>3. r \in GuidType /\ r.cell = g /\ Keeps(r, memory[g])
  <2>1. CASE field = "fullHex"
    BY <2>1, <1>1, <1>2 DEF GuidType, Keeps, Forms
  <2>2. CASE field = "shortHex"
    BY <2>2, <1>1, <1>2 DEF GuidType, Keeps, Forms
  <2>3. CASE field = "base64"
    BY <2>3, <1>1, <1>2 DEF GuidType, Keeps, Forms
  <2> QED
    BY <2>1, <2>2, <2>3
<1>4. after = [guids EXCEPT ![g] = r]
  BY DEF v, AfterAsking
<1> HIDE DEF r, after
<1>5. after \in Seq(GuidType) /\ DOMAIN after = DOMAIN guids /\ Len(after) = Len(guids)
  <2>1. guids \in Seq(GuidType)
    BY DEF GuidsInv
  <2>2. after \in Seq(GuidType)
    BY <1>3, <1>4, <2>1
  <2>3. DOMAIN after = DOMAIN guids
    BY <1>4
  <2>4. Len(after) = Len(guids)
    BY <2>1, <1>3, <1>4
  <2> QED
    BY <2>2, <2>3, <2>4
<1>6. \A h \in DOMAIN guids : after[h] = IF h = g THEN r ELSE guids[h]
  BY <1>3, <1>4 DEF GuidsInv
<1> QED
  <2>1. \A h \in DOMAIN after : after[h].cell = h /\ Keeps(after[h], memory[h])
    BY <1>3, <1>5, <1>6 DEF GuidsInv
  <2> QED
    BY <1>2, <1>5, <2>1 DEF v, after

(* Somebody writes to a GuidBuffer: its cell is no other's.                *)
LEMMA WritingKeeps ==
  ASSUME GuidsInv, NEW g \in DOMAIN guids, NEW v \in Given, WriteBytes(g, v)
  PROVE  GuidsInv'
<1> DEFINE r == [guids[g] EXCEPT !.written = TRUE]
<1>1. guids[g] \in GuidType /\ guids[g].cell = g
  BY DEF GuidsInv
<1>2. r \in GuidType /\ r.cell = g /\ \A w : Keeps(r, w)
  BY <1>1 DEF GuidType, Keeps
<1>3. memory' = [memory EXCEPT ![g] = v] /\ guids' = [guids EXCEPT ![g] = r]
  BY <1>1 DEF WriteBytes
<1> HIDE DEF r
<1>4. /\ memory' \in Seq(GuidBytes) /\ guids' \in Seq(GuidType) /\ Len(memory') = Len(guids')
      /\ DOMAIN guids' = DOMAIN guids
  BY <1>2, <1>3 DEF GuidsInv, GuidBytes
<1>5. \A h \in DOMAIN guids : h # g => guids'[h] = guids[h] /\ memory'[h] = memory[h]
  BY <1>3 DEF GuidsInv
<1>6. guids'[g] = r
  BY <1>2, <1>3 DEF GuidsInv
<1>7. ASSUME NEW h \in DOMAIN guids' PROVE guids'[h].cell = h /\ Keeps(guids'[h], memory'[h])
  BY <1>2, <1>4, <1>5, <1>6 DEF GuidsInv
<1> QED
  BY <1>4, <1>7 DEF GuidsInv, Keeps

LEMMA GuidStep == GuidsInv /\ [GuidNext]_guidVars => GuidsInv'
<1> SUFFICES ASSUME GuidsInv, [GuidNext]_guidVars PROVE GuidsInv'
  OBVIOUS
<1>t. /\ memory \in Seq(GuidBytes) /\ guids \in Seq(GuidType) /\ Len(memory) = Len(guids)
      /\ \A g \in DOMAIN guids : guids[g].cell = g /\ Keeps(guids[g], memory[g])
      /\ \A g \in DOMAIN guids : Bytes(g) \in GuidBytes
  BY DEF GuidsInv, Bytes
<1>1. ASSUME NEW v \in GuidBytes, NEW n \in {NoVersion, GetVersion(v)}, CreateFromBytes(v, n)
      PROVE  GuidsInv'
  BY <1>1, <1>t, GuidMakingKeeps DEF CreateFromBytes
<1>2. ASSUME NEW v \in Given, NewGuid(v) \/ ParseGuid(v) PROVE GuidsInv'
  BY <1>1, <1>2 DEF NewGuid, ParseGuid, GuidBytes
<1>3. CASE Empty
  BY <1>1, <1>3 DEF Empty, GuidBytes
<1>4. ASSUME NEW g \in DOMAIN guids, NEW field \in {"fullHex", "shortHex", "base64"}, Ask(g, field)
      PROVE  GuidsInv'
  <2> DEFINE after == AfterAsking(g, field)
  <2>1. guids' = after /\ memory' = memory
    BY <1>4 DEF Ask, AfterAsking
  <2>2. /\ after \in Seq(GuidType) /\ Len(after) = Len(guids)
        /\ \A h \in DOMAIN after : after[h].cell = h /\ Keeps(after[h], memory[h])
    BY AskingKeeps
  <2> HIDE DEF after
  <2> QED
    BY <1>t, <2>1, <2>2 DEF GuidsInv, Keeps
<1>5. ASSUME NEW g \in DOMAIN guids, CloneGuid(g) PROVE GuidsInv'
  BY <1>1, <1>5, <1>t DEF CloneGuid
<1>6. ASSUME NEW g \in DOMAIN guids, ProviderClone(g) PROVE GuidsInv'
  <2> DEFINE v == Cached(g, "fullHex")
             old == AfterAsking(g, "fullHex")
  <2>1. /\ v \in GuidBytes /\ old \in Seq(GuidType) /\ Len(old) = Len(guids)
        /\ \A h \in DOMAIN old : old[h].cell = h /\ Keeps(old[h], memory[h])
    BY AskingKeeps
  <2>2. /\ memory' = Append(memory, v)
        /\ guids' = Append(old, GuidOn(Len(memory) + 1, v, GetVersion(v)))
    BY <1>6 DEF ProviderClone, AfterAsking
  <2> HIDE DEF v, old
  <2> QED
    BY <1>t, <2>1, <2>2, GuidMakingKeeps
<1>7. CASE UNCHANGED guidVars
  BY <1>7 DEF GuidsInv, guidVars
<1> QED
  BY <1>2, <1>3, <1>4, <1>5, <1>6, <1>7, WritingKeeps DEF GuidNext

LEMMA GuidsHold == GuidsInv => GuidsKeepTheirValue
<1> SUFFICES ASSUME GuidsInv PROVE GuidsKeepTheirValue
  OBVIOUS
<1>1. ASSUME NEW g \in DOMAIN guids, ~guids[g].written
      PROVE  /\ Bytes(g) = guids[g].given
             /\ guids[g].version \in {NoVersion, GetVersion(Bytes(g))}
             /\ \A field \in {"fullHex", "shortHex", "base64"} : Cached(g, field) = Bytes(g)
  BY <1>1 DEF GuidsInv, Keeps, Bytes, Cached
<1> QED
  BY <1>1 DEF GuidsKeepTheirValue, GuidEquals

LEMMA FormsHold == FormsComeBack
  BY DEF FormsComeBack, GuidValues, Deserialize, Serialize, Parse, FromBytes, OnlyV4, Unread,
         GetVersion, IsValidV4, IdFromString, IdToString, ParseSafe

-----------------------------------------------------------------------------
(* SecureBuffers.                                                          *)
Puts == {{}} \union {{<<"data", d>>} : d \in Data}
Pieces == {"data"} \X Data \union {"id", "written"} \X Nat \union {"checksum"} \X Puts

SecureType ==
  [data : Data \union {Nothing}, disposed : BOOLEAN, handed : BOOLEAN, copied : BOOLEAN,
   value : SUBSET Pieces, checksum : SUBSET Pieces]

(* The id of b, what the _id of a buffer can hold, and what follows.       *)
IdOf(b) == {<<"id", b>>}

Holds(b, r, id) ==
  /\ IF r.disposed \/ r.data = Nothing
     THEN r.value = Zeros /\ r.checksum = Zeros
     ELSE r.value = Xor(Put(r.data), IdOf(b)) /\ r.checksum = Xor(Sum(Put(r.data)), IdOf(b))
  /\ id \in {IdOf(b), {<<"written", b>>}, Zeros}
  /\ id = Zeros => r.disposed

SecuresInv ==
  /\ secures \in Seq(SecureType) /\ ids \in Seq(SUBSET Pieces)
  /\ Len(ids) = Len(secures)
  /\ \A b \in DOMAIN secures : Holds(b, secures[b], ids[b])

LEMMA PiecesOfBuffer ==
  ASSUME NEW d \in Data \union {Nothing}, NEW b \in Nat
  PROVE  /\ Put(d) \in SUBSET Pieces /\ IdOf(b) \in SUBSET Pieces
         /\ {<<"written", b>>} \in SUBSET Pieces
         /\ Sum(Put(d)) \in SUBSET Pieces
         /\ Xor(Put(d), IdOf(b)) \in SUBSET Pieces
         /\ Xor(Sum(Put(d)), IdOf(b)) \in SUBSET Pieces
<1>1. Put(d) \in Puts /\ Put(d) \in SUBSET Pieces
  BY DEF Put, Puts, Pieces
<1>2. IdOf(b) \in SUBSET Pieces /\ {<<"written", b>>} \in SUBSET Pieces
  BY DEF IdOf, Pieces
<1>3. Sum(Put(d)) \in SUBSET Pieces
  BY <1>1 DEF Sum, Pieces
<1> QED
  BY <1>1, <1>2, <1>3 DEF Xor

LEMMA SecureStep == SecuresInv /\ [SecureNext]_secureVars => SecuresInv'
<1> SUFFICES ASSUME SecuresInv, [SecureNext]_secureVars PROVE SecuresInv'
  OBVIOUS
<1>t. /\ secures \in Seq(SecureType) /\ ids \in Seq(SUBSET Pieces)
      /\ Len(ids) = Len(secures) /\ DOMAIN ids = DOMAIN secures
      /\ \A b \in DOMAIN secures : secures[b] \in SecureType /\ Holds(b, secures[b], ids[b])
           /\ b \in Nat
  BY DEF SecuresInv
<1>1. ASSUME NEW d \in Data \union {Nothing}, CreateSecure(d) PROVE SecuresInv'
  <2> DEFINE n == Len(secures) + 1
             r == [data |-> d, disposed |-> FALSE, handed |-> FALSE, copied |-> FALSE,
                   value |-> IF d = Nothing THEN Zeros ELSE Xor(Put(d), IdOf(n)),
                   checksum |-> IF d = Nothing THEN Zeros ELSE Xor(Sum(Put(d)), IdOf(n))]
  <2>1. secures' = Append(secures, r) /\ ids' = Append(ids, IdOf(n))
    BY <1>1 DEF CreateSecure, IdOf
  <2>2. r \in SecureType /\ IdOf(n) \in SUBSET Pieces
    <3>1. n \in Nat /\ Zeros \in SUBSET Pieces
      BY <1>t DEF Zeros
    <3> HIDE DEF n
    <3> QED
      BY <3>1, PiecesOfBuffer DEF SecureType
  <2>3. Holds(n, r, IdOf(n))
    BY DEF Holds, IdOf, Zeros
  <2> HIDE DEF r
  <2>4. secures' \in Seq(SecureType) /\ ids' \in Seq(SUBSET Pieces) /\ Len(ids') = Len(secures')
    BY <1>t, <2>1, <2>2
  <2>5. /\ DOMAIN secures' = DOMAIN secures \union {n}
        /\ secures'[n] = r /\ ids'[n] = IdOf(n)
    BY <1>t, <2>1, <2>2
  <2>6. \A b \in DOMAIN secures : secures'[b] = secures[b] /\ ids'[b] = ids[b]
    BY <1>t, <2>1, <2>2
  <2>7. ASSUME NEW b \in DOMAIN secures' PROVE Holds(b, secures'[b], ids'[b])
    BY <1>t, <2>3, <2>5, <2>6
  <2> QED
    BY <2>4, <2>7 DEF SecuresInv, Holds
(* What changes the record or the id of one buffer.                        *)
<1>2. ASSUME NEW b \in DOMAIN secures, NEW r \in SecureType, NEW id \in SUBSET Pieces,
             secures' = [secures EXCEPT ![b] = r], ids' = [ids EXCEPT ![b] = id], Holds(b, r, id)
      PROVE  SecuresInv'
  <2>1. secures' \in Seq(SecureType) /\ ids' \in Seq(SUBSET Pieces) /\ Len(ids') = Len(secures')
        /\ DOMAIN secures' = DOMAIN secures
    BY <1>t, <1>2
  <2>2. \A c \in DOMAIN secures : /\ secures'[c] = IF c = b THEN r ELSE secures[c]
                                  /\ ids'[c] = IF c = b THEN id ELSE ids[c]
    BY <1>t, <1>2
  <2>3. ASSUME NEW c \in DOMAIN secures' PROVE Holds(c, secures'[c], ids'[c])
    BY <1>t, <1>2, <2>1, <2>2
  <2> QED
    BY <2>1, <2>3 DEF SecuresInv, Holds
<1>3. ASSUME NEW b \in DOMAIN secures
      PROVE  /\ ids[b] \in SUBSET Pieces /\ ids = [ids EXCEPT ![b] = ids[b]]
             /\ secures = [secures EXCEPT ![b] = secures[b]]
  BY <1>t
<1>4. ASSUME NEW b \in DOMAIN secures, DisposeSecure(b) PROVE SecuresInv'
  <2> DEFINE r == [secures[b] EXCEPT !.value = Zeros, !.checksum = Zeros, !.disposed = TRUE]
             id == IF secures[b].data = Nothing THEN ids[b] ELSE Zeros
  <2>1. r \in SecureType /\ id \in SUBSET Pieces
    <3>1. secures[b] \in SecureType /\ ids[b] \in SUBSET Pieces
      BY <1>t, <1>3
    <3>2. Zeros \in SUBSET Pieces
      BY DEF Zeros
    <3>3. r \in SecureType
      BY <3>1, <3>2 DEF SecureType
    <3>4. id \in SUBSET Pieces
      BY <3>1, <3>2
    <3> QED
      BY <3>3, <3>4
  <2>2. Holds(b, r, id)
    BY <1>t DEF Holds, SecureType
  <2>3. secures' = [secures EXCEPT ![b] = r]
    BY <1>4 DEF DisposeSecure
  <2>4. ids' = [ids EXCEPT ![b] = id]
    BY <1>3, <1>4 DEF DisposeSecure
  <2> HIDE DEF r, id
  <2> QED
    BY <1>2, <2>1, <2>2, <2>3, <2>4
<1>5. ASSUME NEW b \in DOMAIN secures, CopyId(b) \/ HandOutId(b) PROVE SecuresInv'
  <2>1. PICK r \in {[secures[b] EXCEPT !.copied = TRUE], [secures[b] EXCEPT !.handed = TRUE]} :
          secures' = [secures EXCEPT ![b] = r] /\ ids' = ids
    BY <1>5 DEF CopyId, HandOutId
  <2>2. r \in SecureType /\ Holds(b, r, ids[b])
    BY <1>t DEF Holds, SecureType
  <2> QED
    BY <1>2, <1>3, <2>1, <2>2
<1>6. ASSUME NEW b \in DOMAIN secures, WriteId(b) PROVE SecuresInv'
  <2> DEFINE id == {<<"written", b>>}
  <2>1. secures' = secures /\ ids' = [ids EXCEPT ![b] = id]
    BY <1>6 DEF WriteId
  <2>2. id \in SUBSET Pieces /\ Holds(b, secures[b], id)
    BY <1>t DEF Holds, Zeros, Pieces
  <2> HIDE DEF id
  <2> QED
    BY <1>t, <1>2, <1>3, <2>1, <2>2
<1>7. CASE UNCHANGED secureVars
  BY <1>7 DEF SecuresInv, secureVars, Holds
<1> QED
  BY <1>1, <1>4, <1>5, <1>6, <1>7 DEF SecureNext

(* The key is the id: only with the id is the data what was put in, and    *)
(* with anything else the checksum does not fit.                           *)
LEMMA KeyOpens ==
  ASSUME NEW d \in Data, d # Nothing, NEW b \in Nat
  PROVE  /\ Xor(Xor(Put(d), IdOf(b)), IdOf(b)) = Put(d)
         /\ Xor(Xor(Sum(Put(d)), IdOf(b)), IdOf(b)) = Sum(Put(d))
         /\ LET read == Xor(Xor(Put(d), IdOf(b)), {<<"written", b>>})
            IN  Xor(Xor(Sum(Put(d)), IdOf(b)), {<<"written", b>>}) # Sum(read)
<1> DEFINE p == <<"data", d>>
           s == <<"checksum", Put(d)>>
           i == <<"id", b>>
           w == <<"written", b>>
<1>1. p # i /\ s # i /\ s # w /\ i # w /\ p # w
  OBVIOUS
<1>2. Put(d) = {p} /\ Sum(Put(d)) = {s}
  BY DEF Put, Sum
<1>3. IdOf(b) = {i}
  BY DEF IdOf
<1>4. \A x : i # <<"checksum", x>>
  OBVIOUS
<1>5. \A x : i \notin Sum(x)
  BY <1>4 DEF Sum
<1> HIDE DEF p, s, i
<1>6. i \in Xor(Xor(Sum(Put(d)), IdOf(b)), {w})
  BY <1>1, <1>2, <1>3 DEF Xor
<1> HIDE DEF w
<1>7. Xor(Xor({p}, {i}), {i}) = {p} /\ Xor(Xor({s}, {i}), {i}) = {s}
  BY <1>1 DEF Xor
<1> QED
  BY <1>2, <1>3, <1>5, <1>6, <1>7 DEF w

LEMMA BufferHolds ==
  ASSUME SecuresInv, NEW b \in DOMAIN secures
  PROVE  LET s == secures[b]
             copies == IF s.copied THEN {IdOf(b)} ELSE {}
         IN  /\ ~s.disposed /\ ids[b] = IdOf(b) => ValueOf(b) = Put(s.data)
             /\ ~s.disposed => ValueOf(b) \in {Put(s.data), Mismatch}
             /\ s.disposed /\ s.data # Nothing => \A k \in copies \union {ids[b], Zeros} :
                  /\ Xor(s.value, k) # Put(s.data)
                  /\ Xor(s.checksum, k) # Sum(Put(s.data))
<1> DEFINE s == secures[b]
           d == s.data
           w == {<<"written", b>>}
<1>t. /\ b \in Nat /\ d \in Data \union {Nothing} /\ s.disposed \in BOOLEAN
      /\ Holds(b, s, ids[b])
  <2>1. secures \in Seq(SecureType) /\ Holds(b, s, ids[b])
    BY DEF SecuresInv
  <2>2. b \in Nat /\ secures[b] \in SecureType
    BY <2>1
  <2>3. secures[b].data \in Data \union {Nothing} /\ secures[b].disposed \in BOOLEAN
    BY <2>2 DEF SecureType
  <2> QED
    BY <2>1, <2>2, <2>3
<1>1. CASE s.disposed
  <2>1. s.value = {} /\ s.checksum = {} /\ ids[b] \in {IdOf(b), w, {}}
    BY <1>1, <1>t DEF Holds, Zeros
  <2>2. \A k : Xor({}, k) = k
    BY DEF Xor
  <2>3. d # Nothing => \A k \in {IdOf(b), w, {}} : k # Put(d) /\ k # Sum(Put(d))
    <3>1. SUFFICES ASSUME d # Nothing
                   PROVE  \A k \in {IdOf(b), w, {}} : k # Put(d) /\ k # Sum(Put(d))
      OBVIOUS
    <3>2. /\ <<"id", b>> # <<"data", d>> /\ <<"written", b>> # <<"data", d>>
          /\ <<"id", b>> # <<"checksum", Put(d)>> /\ <<"written", b>> # <<"checksum", Put(d)>>
      OBVIOUS
    <3>3. Put(d) = {<<"data", d>>} /\ Sum(Put(d)) = {<<"checksum", Put(d)>>}
      BY <3>1 DEF Put, Sum
    <3> QED
      BY <3>2, <3>3 DEF IdOf
  <2> HIDE DEF w, d
  <2> QED
    BY <1>1, <2>1, <2>2, <2>3 DEF Zeros, d
<1>2. CASE ~s.disposed /\ d = Nothing
  BY <1>2 DEF ValueOf, Put
<1>3. CASE ~s.disposed /\ d # Nothing
  <2>1. /\ s.value = Xor(Put(d), IdOf(b)) /\ s.checksum = Xor(Sum(Put(d)), IdOf(b))
        /\ ids[b] \in {IdOf(b), w} /\ d \in Data
    BY <1>3, <1>t DEF Holds
  <2>2. ValueOf(b) = LET read == Xor(s.value, ids[b])
                     IN  IF Xor(s.checksum, ids[b]) = Sum(read) THEN read ELSE Mismatch
    BY <1>3 DEF ValueOf
  <2>3. CASE ids[b] = IdOf(b)
    <3>1. Xor(s.value, ids[b]) = Put(d) /\ Xor(s.checksum, ids[b]) = Sum(Put(d))
      BY <1>3, <1>t, <2>1, <2>3, KeyOpens
    <3>2. ValueOf(b) = Put(d)
      BY <2>2, <3>1
    <3> QED
      BY <1>3, <3>2
  <2>4. CASE ids[b] = w
    <3>1. Xor(s.checksum, ids[b]) # Sum(Xor(s.value, ids[b]))
      BY <1>3, <1>t, <2>1, <2>4, KeyOpens
    <3>2. ValueOf(b) = Mismatch
      BY <2>2, <3>1
    <3>3. w # IdOf(b)
      <4>1. <<"written", b>> # <<"id", b>>
        OBVIOUS
      <4> QED
        BY <4>1 DEF IdOf
    <3> QED
      BY <1>3, <2>4, <3>2, <3>3
  <2> QED
    BY <2>1, <2>3, <2>4
<1> QED
  BY <1>t, <1>1, <1>2, <1>3

-----------------------------------------------------------------------------
(* The behaviours of Identities are among those of BuffersSpec.            *)
THEOREM BuffersAmongIdentities == Spec => BuffersSpec
<1>1. Init => GuidInit /\ SecureInit
  BY DEF Init
<1>2. [Next]_vars => [GuidNext]_guidVars /\ [SecureNext]_secureVars
  BY DEF Next, vars
<1> QED
  BY <1>1, <1>2, PTL DEF Spec, BuffersSpec

(* A GuidBuffer and a SecureBuffer give what was put into them as long as  *)
(* nobody has written to their memory, a disposed SecureBuffer gives the   *)
(* data to nobody, and the forms of a GUID come back (guid.ts,             *)
(* secure-buffer.ts).                                                      *)
THEOREM BuffersAlwaysHold == BuffersSpec => []BuffersHold
<1>1. GuidInit => GuidsInv
  BY DEF GuidInit, GuidsInv
<1>2. SecureInit => SecuresInv
  BY DEF SecureInit, SecuresInv
<1>3. SecuresInv => SecuresHold
  BY BufferHolds DEF SecuresHold, IdOf
<1>4. GuidsInv /\ SecuresInv => BuffersHold
  BY <1>3, GuidsHold, FormsHold DEF BuffersHold
<1> QED
  BY <1>1, <1>2, <1>4, GuidStep, SecureStep, PTL DEF BuffersSpec

-----------------------------------------------------------------------------
(***************************************************************************)
(* Passwords.  A derivation gives what its own salt and configuration      *)
(* give, never the profile as it is later; a sealed buffer is an IV of its *)
(* own number, the text and the tag over both, so the tag in a buffer that *)
(* opens says where the rest of it comes from.                             *)
(***************************************************************************)
PasswordSpec == PasswordInit /\ [][PasswordNext]_passwordVars

Configs ==
  Pbkdf2Configs \union {GetConfig([iterations |-> c.iterations]) : c \in Pbkdf2Configs}

Salts  == [bytes : {c.saltBytes : c \in Configs}, number : Nat]
Hashes == [bytes : {c.hashBytes : c \in Configs}, of : PasswordSet \X Salts \X Configs]

DerivationType ==
  [password : PasswordSet, profile : ProfileNames \union {"none"}, config : Configs,
   salt : Salts,
   result : {NotOk} \union [ok : {TRUE}, salt : Salts, hash : Hashes,
                            iterations : {c.iterations : c \in Configs}]]

IvOf(service, n) == [i \in 1 .. service.ivCells |-> <<"iv", n, i>>]

TagOf(key, service, n, value) == AesTag(key, <<>>, IvOf(service, n), JsonCells(value))

(* What the n-th seal gives, with the key of derivation i.                 *)
SealedWith(key, service, n, value, i) ==
  [cells |-> CombineIvTagAndEncryptedData(IvOf(service, n), JsonCells(value),
                                          TagOf(key, service, n, value)),
   value |-> value, service |-> service, by |-> i]

SealedType ==
  {SealedWith(key, service, n, value, i) :
     key \in Hashes, service \in AesServices, n \in Nat, value \in Values, i \in Nat}

Derives(d) ==
  /\ d.salt.bytes = d.config.saltBytes
  /\ d.result \in {NotOk, DeriveKeyFromPassword(d.password, d.salt, d.config)}

SealedBy(k, s) ==
  /\ s.by \in DOMAIN derivations /\ derivations[s.by].result.ok
  /\ s.service \in AesServices /\ s.value \in Values
  /\ LET key == derivations[s.by].result.hash
     IN  /\ KeyFits(s.service, key)
         /\ s = SealedWith(key, s.service, k, s.value, s.by)

PasswordsInv ==
  /\ profiles \in [DOMAIN profiles -> Pbkdf2Configs]
  /\ derivations \in Seq(DerivationType)
  /\ \A i \in DOMAIN derivations : Derives(derivations[i])
  /\ sealed \in Seq(SealedType)
  /\ \A k \in DOMAIN sealed : SealedBy(k, sealed[k])

(* The cells there can be.                                                 *)
Cells ==
  {"iv"} \X Nat \X Nat \union {<<"json", v>> : v \in Values}
    \union {TagOf(key, service, n, value) :
              key \in Hashes, service \in AesServices, n \in Nat, value \in Values}

(* A part of a sequence.                                                   *)
LEMMA PartOf ==
  ASSUME NEW T, NEW s \in Seq(T), NEW m \in 1 .. Len(s) + 1, NEW n \in m - 1 .. Len(s)
  PROVE  /\ SubSeq(s, m, n) \in Seq(T) /\ Len(SubSeq(s, m, n)) = n - m + 1
         /\ \A i \in 1 .. n - m + 1 : SubSeq(s, m, n)[i] = s[m + i - 1]
<1>1. Len(s) \in Nat /\ m \in Int /\ n \in Int
  BY LenProperties
<1>2. \A i \in m .. n : s[i] \in T
  BY <1>1, ElementOfSeq
<1>3. /\ SubSeq(s, m, n) \in Seq(T)
      /\ Len(SubSeq(s, m, n)) = IF m <= n THEN n - m + 1 ELSE 0
      /\ \A i \in 1 .. n - m + 1 : SubSeq(s, m, n)[i] = s[m + i - 1]
  BY <1>1, <1>2, SubSeqProperties
<1> QED
  BY <1>1, <1>3

(* c is iv with x and t behind it.                                         *)
EndsWith(c, iv, x, t, T) ==
  /\ c \in Seq(T) /\ Len(iv) \in Nat /\ Len(c) = Len(iv) + 2
  /\ c[Len(iv) + 1] = x /\ c[Len(iv) + 2] = t
  /\ \A j \in 1 .. Len(iv) : c[j] = iv[j]
  /\ SubSeq(c, 1, Len(iv)) = iv /\ SubSeq(c, Len(iv) + 1, Len(iv) + 1) = <<x>>

LEMMA TwoBehind ==
  ASSUME NEW T, NEW iv \in Seq(T), NEW x \in T, NEW t \in T
  PROVE  EndsWith(iv \o (<<x>> \o <<t>>), iv, x, t, T)
<1> DEFINE l == Len(iv)
           two == <<x>> \o <<t>>
           c == iv \o two
<1>1. l \in Nat
  BY LenProperties
<1>2. two \in Seq(T) /\ Len(two) = 2 /\ two[1] = x /\ two[2] = t
  BY ConcatProperties
<1> HIDE DEF two
<1>3. /\ c \in Seq(T) /\ Len(c) = l + 2
      /\ \A j \in 1 .. l + 2 : c[j] = IF j <= l THEN iv[j] ELSE two[j - l]
  <2>1. /\ c \in Seq(T) /\ Len(c) = Len(iv) + Len(two)
        /\ \A j \in 1 .. Len(iv) + Len(two) :
             c[j] = IF j <= Len(iv) THEN iv[j] ELSE two[j - Len(iv)]
    BY <1>2, ConcatProperties, Zenon
  <2> HIDE DEF c
  <2> QED
    BY <1>2, <2>1
<1> HIDE DEF c, l
<1>4. c[l + 1] = x /\ c[l + 2] = t /\ \A j \in 1 .. l : c[j] = iv[j]
  BY <1>1, <1>2, <1>3
<1>5. SubSeq(c, 1, l) = iv
  <2>1. SubSeq(c, 1, l) \in Seq(T) /\ Len(SubSeq(c, 1, l)) = l
        /\ \A j \in 1 .. l : SubSeq(c, 1, l)[j] = c[j]
    <3>1. 1 \in 1 .. Len(c) + 1 /\ l \in 1 - 1 .. Len(c) /\ l - 1 + 1 = l
          /\ \A j \in 1 .. l : 1 + j - 1 = j
      BY <1>1, <1>3
    <3> QED
      BY <1>3, <3>1, PartOf
  <2>2. \A j \in 1 .. Len(SubSeq(c, 1, l)) : SubSeq(c, 1, l)[j] = iv[j]
    BY <2>1, <1>4
  <2>3. Len(SubSeq(c, 1, l)) = Len(iv)
    BY <2>1 DEF l
  <2> QED
    BY <2>1, <2>2, <2>3, SeqEqual
<1>6. SubSeq(c, l + 1, l + 1) = <<x>>
  <2> DEFINE p == SubSeq(c, l + 1, l + 1)
  <2>1. p \in Seq(T) /\ Len(p) = 1 /\ p[1] = c[l + 1]
    <3>1. l + 1 \in 1 .. Len(c) + 1 /\ l + 1 \in (l + 1) - 1 .. Len(c)
          /\ (l + 1) - (l + 1) + 1 = 1 /\ (l + 1) + 1 - 1 = l + 1
      BY <1>1, <1>3
    <3> QED
      BY <1>3, <3>1, PartOf
  <2> HIDE DEF p
  <2>2. p = <<x>>
    BY <2>1, <1>4
  <2> QED
    BY <2>2 DEF p
<1>7. EndsWith(c, iv, x, t, T)
  BY <1>1, <1>3, <1>4, <1>5, <1>6 DEF l, EndsWith
<1> QED
  BY <1>7 DEF c, two

LEMMA IvIsCells ==
  ASSUME NEW service \in AesServices, NEW n \in Nat
  PROVE  IvOf(service, n) \in Seq(Cells) /\ Len(IvOf(service, n)) = service.ivCells
<1>1. service.ivCells \in Nat
  BY AesAssumption
<1>2. \A i \in 1 .. service.ivCells : <<"iv", n, i>> \in Cells
  BY <1>1 DEF Cells
<1> HIDE DEF Cells
<1> QED
  BY <1>1, <1>2 DEF IvOf

(* A sealed buffer is the IV, the text and the tag.                        *)
IsSealed(c, key, service, n, value) ==
  /\ c \in Seq(Cells) /\ service.ivCells \in Nat /\ Len(c) = service.ivCells + 2
  /\ SubSeq(c, 1, service.ivCells) = IvOf(service, n)
  /\ SubSeq(c, service.ivCells + 1, service.ivCells + 1) = JsonCells(value)
  /\ c[service.ivCells + 1] = <<"json", value>>
  /\ c[service.ivCells + 2] = AesTag(key, <<>>, IvOf(service, n), JsonCells(value))
  /\ \A j \in 1 .. service.ivCells : c[j] = <<"iv", n, j>>

LEMMA SealedBuffer ==
  ASSUME NEW key \in Hashes, NEW service \in AesServices, NEW n \in Nat, NEW value \in Values,
         NEW i
  PROVE  IsSealed(SealedWith(key, service, n, value, i).cells, key, service, n, value)
<1> DEFINE x == <<"json", value>>
           t == TagOf(key, service, n, value)
           iv == IvOf(service, n)
           c == iv \o (<<x>> \o <<t>>)
<1>1. SealedWith(key, service, n, value, i).cells = c
  BY DEF SealedWith, CombineIvTagAndEncryptedData, CombineIvAndEncryptedData,
         CombineEncryptedDataAndTag, JsonCells
<1>2. iv \in Seq(Cells) /\ Len(iv) = service.ivCells /\ service.ivCells \in Nat
  BY IvIsCells, AesAssumption
<1>3. x \in Cells /\ t \in Cells
  BY DEF Cells
<1>4. \A j \in 1 .. service.ivCells : iv[j] = <<"iv", n, j>>
  BY DEF IvOf
<1>5. JsonCells(value) = <<x>> /\ t = AesTag(key, <<>>, iv, JsonCells(value))
  BY DEF JsonCells, TagOf
<1> HIDE DEF x, t, iv
<1>6. EndsWith(c, iv, x, t, Cells)
  BY <1>2, <1>3, TwoBehind
<1> HIDE DEF c
<1>7. IsSealed(c, key, service, n, value)
  BY <1>2, <1>4, <1>5, <1>6 DEF EndsWith, IsSealed, x, iv
<1> QED
  BY <1>1, <1>7

(* When decryptJson gives something, and that the way over                 *)
(* splitEncryptedData gives the same.                                      *)
LEMMA WhatOpens ==
  ASSUME NEW c \in Seq(Cells), NEW service \in AesServices, NEW key
  PROVE  LET o == DecryptJson(service, c, key)
             text == SubSeq(c, 3, Len(c) - 1)
         IN  /\ o \in {NotOk, [ok |-> TRUE, data |-> text]}
             /\ o.ok <=> /\ KeyFits(service, key)
                         /\ service.ivCells = RequiredIvCells /\ Len(c) >= 3
                         /\ c[Len(c)] = AesTag(key, <<>>, SubSeq(c, 1, 2), text)
             /\ DecryptSplit(service, c, key) = o
<1> DEFINE n == service.ivCells
           l == Len(c)
           e == IF n < l THEN n ELSE l
           iv == SubSeq(c, 1, e)
           rest == SubSeq(c, e + 1, l)
           o == DecryptJson(service, c, key)
<1>1. n \in Nat /\ l \in Nat /\ e \in 0 .. l
  BY AesAssumption
<1>2. o = AesDecrypt(service, iv, rest, key, <<>>)
  BY DEF DecryptJson, CellsFrom
<1>3. /\ iv \in Seq(Cells) /\ Len(iv) = e /\ rest \in Seq(Cells) /\ Len(rest) = l - e
      /\ \A i \in 1 .. l - e : rest[i] = c[e + i]
  <2>1. iv \in Seq(Cells) /\ Len(iv) = e
    <3>1. 1 \in 1 .. Len(c) + 1 /\ e \in 1 - 1 .. Len(c) /\ e - 1 + 1 = e
      BY <1>1
    <3> HIDE DEF e
    <3> QED
      BY <3>1, PartOf
  <2>2. /\ rest \in Seq(Cells) /\ Len(rest) = l - e
        /\ \A i \in 1 .. l - e : rest[i] = c[e + i]
    <3>1. e + 1 \in 1 .. Len(c) + 1 /\ l \in (e + 1) - 1 .. Len(c) /\ l - (e + 1) + 1 = l - e
          /\ \A i \in 1 .. l - e : (e + 1) + i - 1 = e + i
      BY <1>1
    <3> HIDE DEF e, l
    <3> QED
      BY <3>1, PartOf
  <2> QED
    BY <2>1, <2>2
<1>4. rest = <<>> <=> e = l
  <2> HIDE DEF rest, e, l
  <2>1. rest = <<>> <=> Len(rest) = 0
    BY <1>3, EmptySeq
  <2> QED
    BY <1>1, <1>3, <2>1
<1>5. CASE e = l
  <2>1. o = NotOk
    BY <1>2, <1>4, <1>5 DEF AesDecrypt
  <2>2. n >= l /\ DecryptSplit(service, c, key) = NotOk
    BY <1>1, <1>5 DEF DecryptSplit, SplitEncryptedData, NotOk
  <2>3. ~(n = 2 /\ l >= 3)
    BY <1>1, <2>2
  <2> QED
    BY <2>1, <2>2, <2>3 DEF NotOk, RequiredIvCells
<1>6. CASE e # l
  <2>1. n < l /\ e = n
    BY <1>1, <1>6
  <2>2. DecryptSplit(service, c, key) = o
    BY <1>1, <1>2, <2>1 DEF DecryptSplit, SplitEncryptedData, CellsFrom
  <2>3. CASE ~KeyFits(service, key) \/ n # 2
    BY <1>2, <1>3, <2>1, <2>2, <2>3 DEF AesDecrypt, NotOk, RequiredIvCells
  <2>4. CASE KeyFits(service, key) /\ n = 2
    <3>1. l >= 3 /\ Len(rest) = l - 2 /\ rest # <<>>
      BY <1>1, <1>3, <1>4, <1>6, <2>1, <2>4
    <3>2. iv = SubSeq(c, 1, 2) /\ rest = SubSeq(c, 3, l)
      BY <2>1, <2>4
    <3>3. rest[Len(rest)] = c[l]
      BY <1>1, <1>3, <2>1, <2>4, <3>1
    <3>4. SubSeq(rest, 1, Len(rest) - 1) = SubSeq(c, 3, l - 1)
      <4> DEFINE p == SubSeq(rest, 1, Len(rest) - 1)
                 q == SubSeq(c, 3, l - 1)
      <4>1. p \in Seq(Cells) /\ Len(p) = l - 3 /\ \A i \in 1 .. l - 3 : p[i] = rest[i]
        <5>1. 1 \in 1 .. Len(rest) + 1 /\ Len(rest) - 1 \in 1 - 1 .. Len(rest)
              /\ Len(rest) - 1 - 1 + 1 = l - 3 /\ \A i \in 1 .. l - 3 : 1 + i - 1 = i
          <6> HIDE DEF rest, l
          <6> QED
            BY <1>1, <3>1
        <5> HIDE DEF rest, l
        <5> QED
          BY <1>3, <5>1, PartOf
      <4>2. q \in Seq(Cells) /\ Len(q) = l - 3 /\ \A i \in 1 .. l - 3 : q[i] = c[2 + i]
        <5>1. 3 \in 1 .. Len(c) + 1 /\ l - 1 \in 3 - 1 .. Len(c)
              /\ l - 1 - 3 + 1 = l - 3 /\ \A i \in 1 .. l - 3 : 3 + i - 1 = 2 + i
          BY <1>1, <3>1
        <5> HIDE DEF l
        <5> QED
          BY <5>1, PartOf
      <4> HIDE DEF p, q
      <4>3. \A i \in 1 .. Len(p) : p[i] = q[i]
        BY <1>1, <1>3, <2>1, <2>4, <4>1, <4>2
      <4>4. p = q
        BY <4>1, <4>2, <4>3, SeqEqual
      <4> QED
        BY <4>4 DEF p, q
    <3>5. Len(iv) = RequiredIvCells
      BY <1>3, <2>1, <2>4 DEF RequiredIvCells
    <3> HIDE DEF iv, rest
    <3>6. o = IF c[l] # AesTag(key, <<>>, SubSeq(c, 1, 2), SubSeq(c, 3, l - 1)) THEN NotOk
              ELSE [ok |-> TRUE, data |-> SubSeq(c, 3, l - 1)]
      BY <1>2, <2>4, <3>1, <3>2, <3>3, <3>4, <3>5 DEF AesDecrypt
    <3> QED
      BY <2>2, <2>4, <3>1, <3>6 DEF NotOk, RequiredIvCells
  <2> QED
    BY <2>3, <2>4
<1> QED
  BY <1>5, <1>6

-----------------------------------------------------------------------------
(* What the steps keep.                                                    *)
LEMMA DerivedType ==
  ASSUME NEW w \in PasswordSet, NEW config \in Configs, NEW salt \in Salts
  PROVE  DeriveKeyFromPassword(w, salt, config)
           \in {NotOk} \union [ok : {TRUE}, salt : Salts, hash : Hashes,
                               iterations : {c.iterations : c \in Configs}]
  BY DEF DeriveKeyFromPassword, Pbkdf2, Hashes

LEMMA SealedStays ==
  ASSUME NEW k, NEW s, SealedBy(k, s), DOMAIN derivations \subseteq DOMAIN derivations',
         \A i \in DOMAIN derivations : derivations[i].result.ok =>
           derivations'[i].result = derivations[i].result
  PROVE  SealedBy(k, s)'
  BY DEF SealedBy

LEMMA BeginKeeps ==
  ASSUME PasswordsInv, NEW w \in PasswordSet, NEW name \in ProfileNames \union {"none"},
         NEW config \in Configs,
         NEW result \in {NotOk, DeriveKeyFromPassword(w, RandomSalt(config), config)},
         Begin(w, name, config, result)
  PROVE  PasswordsInv'
<1> DEFINE d == Derivation(w, name, config, result)
           n == Len(derivations)
<1>1. n \in Nat /\ RandomSalt(config) \in Salts
  BY DEF PasswordsInv, RandomSalt, Salts
<1>2. d \in DerivationType /\ Derives(d)
  <2>1. result \in {NotOk} \union [ok : {TRUE}, salt : Salts, hash : Hashes,
                                   iterations : {c.iterations : c \in Configs}]
    <3>1. DeriveKeyFromPassword(w, RandomSalt(config), config)
            \in {NotOk} \union [ok : {TRUE}, salt : Salts, hash : Hashes,
                                iterations : {c.iterations : c \in Configs}]
      BY <1>1, DerivedType
    <3> QED
      BY <3>1
  <2>2. RandomSalt(config).bytes = config.saltBytes
    BY DEF RandomSalt
  <2> HIDE DEF n
  <2> QED
    BY <1>1, <2>1, <2>2 DEF Derivation, DerivationType, Derives
<1> HIDE DEF d
<1>3. derivations' = Append(derivations, d) /\ profiles' = profiles /\ sealed' = sealed
  BY DEF Begin, d
<1>4. /\ derivations' \in Seq(DerivationType) /\ DOMAIN derivations' = 1 .. n + 1
      /\ DOMAIN derivations = 1 .. n /\ derivations'[n + 1] = d
      /\ \A i \in 1 .. n : derivations'[i] = derivations[i]
  <2>1. derivations \in Seq(DerivationType)
    BY DEF PasswordsInv
  <2> QED
    BY <1>2, <1>3, <2>1, AppendProperties, LenProperties
<1>5. ASSUME NEW i \in DOMAIN derivations' PROVE Derives(derivations'[i])
  BY <1>1, <1>2, <1>4 DEF PasswordsInv
<1>6. ASSUME NEW k \in DOMAIN sealed PROVE SealedBy(k, sealed[k])'
  <2>1. SealedBy(k, sealed[k]) /\ DOMAIN derivations \subseteq DOMAIN derivations'
    BY <1>1, <1>4 DEF PasswordsInv
  <2>2. SealedBy(k, sealed[k])'
    <3>1. \A i \in DOMAIN derivations : derivations'[i].result = derivations[i].result
      BY <1>4
    <3>2. sealed'[k] = sealed[k]
      BY <1>3
    <3> QED
      BY <2>1, <3>1, <3>2 DEF SealedBy
  <2> QED
    BY <2>2
<1> QED
  BY <1>3, <1>4, <1>5, <1>6 DEF PasswordsInv, Derives

LEMMA PasswordStep == PasswordsInv /\ [PasswordNext]_passwordVars => PasswordsInv'
<1> SUFFICES ASSUME PasswordsInv, [PasswordNext]_passwordVars PROVE PasswordsInv'
  OBVIOUS
<1>t. /\ derivations \in Seq(DerivationType) /\ sealed \in Seq(SealedType)
      /\ \A i \in DOMAIN derivations : derivations[i] \in DerivationType /\ Derives(derivations[i])
      /\ profiles \in [DOMAIN profiles -> Pbkdf2Configs]
  BY DEF PasswordsInv
<1>1. ASSUME NEW name \in ProfileNames, NEW config \in Pbkdf2Configs,
             RegisterProfile(name, config)
      PROVE  PasswordsInv'
  <2>1. profiles' \in [DOMAIN profiles' -> Pbkdf2Configs]
    BY <1>1, <1>t DEF RegisterProfile
  <2>2. derivations' = derivations /\ sealed' = sealed
    BY <1>1 DEF RegisterProfile
  <2> QED
    BY <2>1, <2>2 DEF PasswordsInv, Derives, SealedBy
<1>2. ASSUME NEW w \in PasswordSet, NEW name \in ProfileNames, Derive(w, name) \/ BeginDerivation(w, name)
      PROVE  PasswordsInv'
  <2>1. profiles[name] \in Configs
    BY <1>2, <1>t DEF Derive, BeginDerivation, HasProfile, Configs
  <2> QED
    BY <1>2, <2>1, BeginKeeps DEF Derive, BeginDerivation
<1>3. ASSUME NEW w \in PasswordSet, NEW n \in {c.iterations : c \in Pbkdf2Configs},
             DeriveDirectly(w, [iterations |-> n])
      PROVE  PasswordsInv'
  <2> DEFINE config == GetConfig([iterations |-> n])
  <2>1. config \in Configs
    BY DEF Configs
  <2>2. Begin(w, "none", config, DeriveKeyFromPassword(w, RandomSalt(config), config))
    BY <1>3 DEF DeriveDirectly
  <2> HIDE DEF config
  <2> QED
    BY <2>1, <2>2, BeginKeeps
<1>4. ASSUME NEW i \in DOMAIN derivations, FinishDerivation(i) PROVE PasswordsInv'
  <2> DEFINE d == derivations[i]
             r == DeriveKeyFromPassword(d.password, d.salt, d.config)
             e == [d EXCEPT !.result = r]
  <2>1. /\ d \in DerivationType /\ Derives(d) /\ ~d.result.ok
        /\ derivations' = [derivations EXCEPT ![i] = e]
        /\ sealed' = sealed /\ profiles' = profiles
    BY <1>4, <1>t DEF FinishDerivation, ConfigOf
  <2>2. e \in DerivationType /\ Derives(e)
    <3>1. r \in {NotOk} \union [ok : {TRUE}, salt : Salts, hash : Hashes,
                                iterations : {c.iterations : c \in Configs}]
      BY <2>1, DerivedType DEF DerivationType
    <3>2. /\ e.password = d.password /\ e.salt = d.salt /\ e.config = d.config /\ e.result = r
          /\ e \in DerivationType
      <4> HIDE DEF r, d
      <4> QED
        BY <2>1, <3>1 DEF DerivationType
    <3> QED
      BY <2>1, <3>2 DEF Derives
  <2> HIDE DEF e
  <2>3. /\ derivations' \in Seq(DerivationType) /\ DOMAIN derivations' = DOMAIN derivations
        /\ \A j \in DOMAIN derivations : derivations'[j] = IF j = i THEN e ELSE derivations[j]
    BY <1>t, <2>1, <2>2
  <2>4. ASSUME NEW j \in DOMAIN derivations' PROVE Derives(derivations'[j])
    BY <1>t, <2>2, <2>3
  <2>5. ASSUME NEW k \in DOMAIN sealed PROVE SealedBy(k, sealed[k])'
    <3>1. SealedBy(k, sealed[k]) /\ sealed'[k] = sealed[k]
      BY <2>1 DEF PasswordsInv
    <3>2. \A j \in DOMAIN derivations : derivations[j].result.ok =>
            derivations'[j].result = derivations[j].result
      BY <2>1, <2>3
    <3> QED
      BY <2>3, <3>1, <3>2 DEF SealedBy
  <2> QED
    BY <2>1, <2>3, <2>4, <2>5 DEF PasswordsInv, Derives
<1>5. ASSUME NEW i \in DOMAIN derivations, NEW service \in AesServices, NEW value \in Values,
             EncryptJson(i, service, value)
      PROVE  PasswordsInv'
  <2> DEFINE key == derivations[i].result.hash
             k == Len(sealed) + 1
             s == SealedWith(key, service, k, value, i)
             x == AesEncrypt(service, key, RandomIv(service), JsonCells(value), <<>>)
  <2>1. derivations[i].result.ok /\ key \in Hashes /\ i \in Nat /\ k \in Nat
    <3>1. derivations[i].result.ok
      BY <1>5 DEF EncryptJson
    <3>2. derivations[i].result # NotOk
      BY <3>1 DEF NotOk
    <3>3. derivations[i] \in DerivationType /\ i \in Nat /\ k \in Nat
      BY <1>t
    <3> QED
      BY <3>1, <3>2, <3>3 DEF DerivationType
  <2>2. x.ok /\ Seal(i, service, value, x)
    BY <1>5 DEF EncryptJson, Seal
  <2>3. /\ KeyFits(service, key)
        /\ x = [ok |-> TRUE, encrypted |-> JsonCells(value), iv |-> RandomIv(service),
                tag |-> AesTag(key, <<>>, RandomIv(service), JsonCells(value))]
    BY <2>2 DEF AesEncrypt, NotOk
  <2>4. RandomIv(service) = IvOf(service, k)
    BY DEF RandomIv, IvOf
  <2> HIDE DEF key, k
  <2>5. SealedCells(x) = s.cells
    BY <2>3, <2>4 DEF SealedCells, SealedWith, TagOf
  <2>6. s = [cells |-> SealedCells(x), value |-> value, service |-> service, by |-> i]
    BY <2>5 DEF SealedWith
  <2>7. sealed' = Append(sealed, s) /\ derivations' = derivations /\ profiles' = profiles
    BY <2>2, <2>6 DEF Seal
  <2>8. s \in SealedType
    BY <2>1 DEF SealedType
  <2>9. SealedBy(k, s)
    <3>1. s.by = i /\ s.service = service /\ s.value = value
      BY <2>6
    <3> QED
      BY <2>1, <2>3, <3>1 DEF SealedBy, key
  <2> HIDE DEF s
  <2>10. /\ sealed' \in Seq(SealedType) /\ DOMAIN sealed' = DOMAIN sealed \union {k}
         /\ sealed'[k] = s /\ \A j \in DOMAIN sealed : sealed'[j] = sealed[j]
    BY <1>t, <2>7, <2>8, AppendProperties, LenProperties DEF k
  <2>11. ASSUME NEW j \in DOMAIN sealed' PROVE SealedBy(j, sealed'[j])
    BY <2>9, <2>10 DEF PasswordsInv
  <2> QED
    BY <2>7, <2>10, <2>11 DEF PasswordsInv, SealedBy
<1>6. CASE UNCHANGED passwordVars
  BY <1>6 DEF PasswordsInv, passwordVars, SealedBy
<1> QED
  BY <1>1, <1>2, <1>3, <1>4, <1>5, <1>6 DEF PasswordNext

-----------------------------------------------------------------------------
(* A sealed buffer opens with its own key and with a service that has its  *)
(* key length and IV.                                                      *)
LEMMA OwnKeyOpens ==
  ASSUME NEW s, NEW key \in Hashes, NEW n \in Nat, NEW i \in Nat,
         s.service \in AesServices, s.value \in Values, KeyFits(s.service, key),
         s = SealedWith(key, s.service, n, s.value, i),
         NEW other \in Hashes, NEW service \in AesServices
  PROVE  LET o == DecryptJson(service, s.cells, other)
         IN  /\ o.ok <=> /\ other = key /\ service = s.service
                         /\ service.ivCells = RequiredIvCells
             /\ o.ok => o.data = JsonCells(s.value)
             /\ DecryptSplit(service, s.cells, other) = o
<1> DEFINE c == s.cells
           l == s.service.ivCells
           o == DecryptJson(service, c, other)
           iv == IvOf(s.service, n)
           text == SubSeq(c, 3, Len(c) - 1)
<1>1. /\ c \in Seq(Cells) /\ l \in Nat /\ Len(c) = l + 2
      /\ SubSeq(c, 1, l) = iv
      /\ SubSeq(c, l + 1, l + 1) = JsonCells(s.value)
      /\ c[l + 2] = AesTag(key, <<>>, iv, JsonCells(s.value))
  <2>1. IsSealed(SealedWith(key, s.service, n, s.value, i).cells, key, s.service, n, s.value)
    BY SealedBuffer
  <2> QED
    BY <2>1 DEF IsSealed
<1>2. Len(iv) = l
  BY IvIsCells
<1>3. /\ o \in {NotOk, [ok |-> TRUE, data |-> text]}
      /\ o.ok <=> /\ KeyFits(service, other)
                  /\ service.ivCells = RequiredIvCells /\ Len(c) >= 3
                  /\ c[Len(c)] = AesTag(other, <<>>, SubSeq(c, 1, 2), text)
      /\ DecryptSplit(service, c, other) = o
  BY <1>1, WhatOpens
<1> HIDE DEF c, iv, o, l
<1>4. ASSUME o.ok
      PROVE  /\ other = key /\ service = s.service /\ service.ivCells = RequiredIvCells
             /\ o.data = JsonCells(s.value)
  <2>1. AesTag(key, <<>>, iv, JsonCells(s.value)) = AesTag(other, <<>>, SubSeq(c, 1, 2), text)
    BY <1>1, <1>3, <1>4
  <2>2. key = other /\ iv = SubSeq(c, 1, 2) /\ JsonCells(s.value) = text
    BY <2>1 DEF AesTag
  <2>3. Len(SubSeq(c, 1, 2)) = 2
    <3>1. Len(c) \in Nat /\ Len(c) = l + 2
      BY <1>1
    <3>2. Len(c) >= 3
      BY <1>3, <1>4
    <3>3. 1 \in 1 .. Len(c) + 1 /\ 2 \in 1 - 1 .. Len(c) /\ 2 - 1 + 1 = 2
      BY <3>1, <3>2
    <3> QED
      BY <1>1, <3>3, PartOf
  <2>4. l = 2 /\ service.ivCells = 2
    BY <1>2, <1>3, <1>4, <2>2, <2>3 DEF RequiredIvCells
  <2>5. service.keyBytes = s.service.keyBytes /\ service.cipherBytes = s.service.cipherBytes
    BY <1>3, <1>4, <2>2 DEF KeyFits
  <2>6. service = s.service
    BY <2>4, <2>5, AesAssumption DEF l
  <2> QED
    BY <1>3, <1>4, <2>2, <2>4, <2>6 DEF NotOk, RequiredIvCells
<1>5. ASSUME other = key, service = s.service, service.ivCells = RequiredIvCells PROVE o.ok
  <2>1. l = 2 /\ Len(c) = 4
    BY <1>1, <1>5 DEF l, RequiredIvCells
  <2>2. text = SubSeq(c, l + 1, l + 1) /\ SubSeq(c, 1, 2) = SubSeq(c, 1, l)
    BY <2>1
  <2>3. c[Len(c)] = AesTag(other, <<>>, SubSeq(c, 1, 2), text)
    BY <1>1, <1>5, <2>1, <2>2
  <2> QED
    BY <1>3, <1>5, <2>1, <2>3
<1> QED
  BY <1>3, <1>4, <1>5 DEF o, c, l

(* Two seals give different tags; a tag is no other cell.                  *)
LEMMA TagsAreOwn ==
  ASSUME NEW key \in Hashes, NEW service \in AesServices, NEW n \in Nat, NEW value \in Values,
         NEW i, NEW c, c = SealedWith(key, service, n, value, i).cells,
         NEW j \in 1 .. Len(c), NEW k, NEW iv, NEW text, c[j] = AesTag(k, <<>>, iv, text)
  PROVE  /\ j = service.ivCells + 2
         /\ iv = IvOf(service, n) /\ text = JsonCells(value)
<1> DEFINE l == service.ivCells
           t == AesTag(k, <<>>, iv, text)
<1>1. /\ c \in Seq(Cells) /\ l \in Nat /\ Len(c) = l + 2
      /\ c[l + 1] = <<"json", value>>
      /\ c[l + 2] = AesTag(key, <<>>, IvOf(service, n), JsonCells(value))
      /\ \A m \in 1 .. l : c[m] = <<"iv", n, m>>
  <2>1. IsSealed(SealedWith(key, service, n, value, i).cells, key, service, n, value)
    BY SealedBuffer
  <2> QED
    BY <2>1 DEF IsSealed
<1>2. \A m : t # <<"iv", n, m>>
  BY DEF AesTag
<1>3. t # <<"json", value>>
  BY DEF AesTag
<1> HIDE DEF t, l
<1>4. j = l + 2
  <2>1. c[j] = t
    BY DEF t
  <2> QED
    <3>1. j \in 1 .. l \/ j = l + 1 \/ j = l + 2
      BY <1>1
    <3> QED
      BY <1>1, <1>2, <1>3, <2>1, <3>1
<1>5. AesTag(key, <<>>, IvOf(service, n), JsonCells(value)) = t
  BY <1>1, <1>4 DEF t
<1> QED
  BY <1>4, <1>5 DEF t, l, AesTag

(* Whatever is put together from cells of sealed buffers opens only if it  *)
(* is one of them.                                                         *)
LEMMA OnlyWholeOpens ==
  ASSUME PasswordsInv, NEW data \in Seq(Cells), NEW service \in AesServices, NEW key,
         \A i \in DOMAIN data : \E j \in DOMAIN sealed :
            \E m \in DOMAIN sealed[j].cells : data[i] = sealed[j].cells[m],
         DecryptJson(service, data, key).ok
  PROVE  \E j \in DOMAIN sealed : data = sealed[j].cells
<1> DEFINE l == Len(data)
           head == SubSeq(data, 1, 2)
           text == SubSeq(data, 3, l - 1)
<1>1. l >= 3 /\ data[l] = AesTag(key, <<>>, head, text)
  BY WhatOpens
<1>2. l \in Nat /\ DOMAIN data = 1 .. l
  BY LenProperties
<1>3. PICK j \in DOMAIN sealed : \E m \in DOMAIN sealed[j].cells : data[l] = sealed[j].cells[m]
  BY <1>1, <1>2
<1> DEFINE s == sealed[j]
           c == s.cells
           n == s.service.ivCells
           k == derivations[s.by].result.hash
<1>4. /\ s.service \in AesServices /\ s.value \in Values /\ k \in Hashes
      /\ s.by \in Nat /\ j \in Nat
      /\ c = SealedWith(k, s.service, j, s.value, s.by).cells
  <2>1. SealedBy(j, s)
    BY DEF PasswordsInv
  <2>2. derivations[s.by] \in DerivationType /\ derivations[s.by].result # NotOk /\ s.by \in Nat
    BY <2>1 DEF SealedBy, PasswordsInv, NotOk
  <2>3. k \in Hashes
    BY <2>2 DEF DerivationType
  <2>4. j \in Nat
    BY DEF PasswordsInv
  <2> QED
    BY <2>1, <2>2, <2>3, <2>4 DEF SealedBy
<1>5. /\ c \in Seq(Cells) /\ n \in Nat /\ Len(c) = n + 2
      /\ SubSeq(c, 1, n) = IvOf(s.service, j)
      /\ SubSeq(c, n + 1, n + 1) = JsonCells(s.value)
  <2>1. IsSealed(SealedWith(k, s.service, j, s.value, s.by).cells, k, s.service, j, s.value)
    BY <1>4, SealedBuffer
  <2> QED
    BY <1>4, <2>1 DEF IsSealed
<1>6. PICK m \in 1 .. Len(c) : data[l] = c[m]
  BY <1>3, <1>5, LenProperties
<1> HIDE DEF c, n, k
<1>7. m = n + 2 /\ head = IvOf(s.service, j) /\ text = JsonCells(s.value)
  <2>1. c[m] = AesTag(key, <<>>, head, text)
    BY <1>1, <1>6
  <2> HIDE DEF s, l, head, text
  <2> QED
    BY <1>4, <2>1, TagsAreOwn DEF n
<1> HIDE DEF head, text
<1>8. n = 2 /\ l = 4
  <2>1. /\ Len(head) = 2 /\ head \in Seq(Cells) /\ Len(text) = l - 3 /\ text \in Seq(Cells)
    <3>1. /\ 1 \in 1 .. Len(data) + 1 /\ 2 \in 1 - 1 .. Len(data) /\ 2 - 1 + 1 = 2
          /\ 3 \in 1 .. Len(data) + 1 /\ l - 1 \in 3 - 1 .. Len(data) /\ l - 1 - 3 + 1 = l - 3
      BY <1>1, <1>2
    <3> HIDE DEF l
    <3> QED
      BY <3>1, PartOf DEF head, text
  <2>2. Len(IvOf(s.service, j)) = n
    BY <1>4, IvIsCells DEF n
  <2>3. Len(JsonCells(s.value)) = 1
    BY DEF JsonCells
  <2> QED
    <3>1. Len(head) = n /\ Len(text) = 1
      BY <1>7, <2>2, <2>3
    <3>2. n = 2
      BY <2>1, <3>1, Zenon
    <3>3. l - 3 = 1
      BY <2>1, <3>1, Zenon
    <3>4. l \in Nat
      BY <1>2
    <3> HIDE DEF l
    <3> QED
      BY <3>2, <3>3, <3>4
<1>9. data = c
  <2>1. head[1] = data[1] /\ head[2] = data[2] /\ text[1] = data[3]
    BY <1>8 DEF head, text
  <2>2. SubSeq(c, 1, 2)[1] = c[1] /\ SubSeq(c, 1, 2)[2] = c[2] /\ SubSeq(c, 3, 3)[1] = c[3]
    BY <1>5, <1>8
  <2>3. head = SubSeq(c, 1, 2) /\ text = SubSeq(c, 3, 3)
    BY <1>5, <1>7, <1>8
  <2>4. data[4] = c[4]
    BY <1>6, <1>7, <1>8
  <2>5. \A i \in 1 .. 4 : data[i] = c[i]
    BY <2>1, <2>2, <2>3, <2>4
  <2>6. Len(c) = 4 /\ Len(data) = 4
    BY <1>5, <1>8
  <2> QED
    BY <1>5, <2>5, <2>6, SeqEqual
<1> QED
  BY <1>9 DEF c

(* The result of a derivation is what its own salt and configuration give. *)
LEMMA ResultRepeats ==
  ASSUME NEW d, Derives(d)
  PROVE  DerivationRepeats(d)
<1> SUFFICES ASSUME d.result.ok
             PROVE  d.result = DeriveKeyFromPassword(d.password, d.result.salt, d.config)
  BY DEF DerivationRepeats
<1>1. d.result # NotOk
  BY DEF NotOk
<1>2. d.result = DeriveKeyFromPassword(d.password, d.salt, d.config)
  BY <1>1 DEF Derives
<1>3. d.result.salt = d.salt
  BY <1>1, <1>2 DEF DeriveKeyFromPassword
<1> QED
  BY <1>2, <1>3

(* The four kinds of alteration.                                           *)
LEMMA AlteredKinds ==
  ASSUME NEW c, NEW data \in Altered(c)
  PROVE  \/ \E n \in 0 .. Len(c) : data = SubSeq(c, 1, n)
         \/ \E n \in 1 .. Len(c) : data = SubSeq(c, n, Len(c))
         \/ \E n \in 1 .. Len(c) : data = SubSeq(c, 1, n) \o SubSeq(c, n, Len(c))
         \/ \E n \in 0 .. Len(c), j \in {m \in DOMAIN sealed : Len(sealed[m].cells) >= Len(c)} :
              data = SubSeq(c, 1, n) \o CellsFrom(sealed[j].cells, n)
<1>1. \/ data \in {SubSeq(c, 1, n) : n \in 0 .. Len(c)}
      \/ data \in {SubSeq(c, n, Len(c)) : n \in 1 .. Len(c)}
      \/ data \in {SubSeq(c, 1, n) \o SubSeq(c, n, Len(c)) : n \in 1 .. Len(c)}
      \/ data \in {SubSeq(c, 1, n) \o CellsFrom(sealed[i].cells, n) :
                   n \in 0 .. Len(c), i \in {j \in DOMAIN sealed : Len(sealed[j].cells) >= Len(c)}}
  BY DEF Altered
<1> QED
  BY <1>1

LEMMA SealedIsSealedWith ==
  ASSUME NEW s \in SealedType
  PROVE  \E key \in Hashes, service \in AesServices, n \in Nat, value \in Values, i \in Nat :
           s = SealedWith(key, service, n, value, i)
<1> HIDE DEF Hashes, Values
<1> QED
  BY SMTT(30) DEF SealedType

(* What Altered makes is put together from cells of sealed buffers.        *)
LEMMA AlteredIsPutTogether ==
  ASSUME PasswordsInv, NEW k \in DOMAIN sealed, NEW data \in Altered(sealed[k].cells)
  PROVE  /\ data \in Seq(Cells)
         /\ \A i \in DOMAIN data : \E j \in DOMAIN sealed :
              \E m \in DOMAIN sealed[j].cells : data[i] = sealed[j].cells[m]
<1> DEFINE C == {c \in Cells : \E j \in DOMAIN sealed :
                    \E m \in DOMAIN sealed[j].cells : c = sealed[j].cells[m]}
           c == sealed[k].cells
<1>1. ASSUME NEW j \in DOMAIN sealed PROVE sealed[j].cells \in Seq(C)
  <2> DEFINE d == sealed[j].cells
  <2>1. sealed[j] \in SealedType
    BY DEF PasswordsInv
  <2>2. PICK key \in Hashes, service \in AesServices, n \in Nat, value \in Values, i \in Nat :
          sealed[j] = SealedWith(key, service, n, value, i)
    BY <2>1, SealedIsSealedWith
  <2>3. d \in Seq(Cells)
    BY <2>2, SealedBuffer DEF IsSealed
  <2>4. Len(d) \in Nat /\ DOMAIN d = 1 .. Len(d) /\ d \in [1 .. Len(d) -> Cells]
    BY <2>3, LenProperties
  <2>5. \A m \in 1 .. Len(d) : d[m] \in C
    BY <2>4
  <2> HIDE DEF d, C
  <2>6. d \in [1 .. Len(d) -> C]
    BY <2>4, <2>5
  <2> QED
    BY <2>4, <2>6 DEF d
<1>2. c \in Seq(C)
  BY <1>1
<1>3. C \subseteq Cells
  OBVIOUS
<1> HIDE DEF C
<1>4. ASSUME NEW s \in Seq(C), NEW m \in 1 .. Len(s) + 1, NEW n \in m - 1 .. Len(s)
      PROVE  SubSeq(s, m, n) \in Seq(C)
  BY PartOf
<1>5. ASSUME NEW s \in Seq(C), NEW t \in Seq(C) PROVE s \o t \in Seq(C)
  BY ConcatProperties
<1>6. ASSUME NEW s \in Seq(C), NEW n \in 0 .. Len(s)
      PROVE  /\ SubSeq(s, 1, n) \in Seq(C) /\ SubSeq(s, n + 1, Len(s)) \in Seq(C)
             /\ n # 0 => SubSeq(s, n, Len(s)) \in Seq(C)
  <2>0. Len(s) \in Nat
    BY LenProperties
  <2>1. 1 \in 1 .. Len(s) + 1 /\ n \in 1 - 1 .. Len(s)
    BY <2>0
  <2>2. n + 1 \in 1 .. Len(s) + 1 /\ Len(s) \in (n + 1) - 1 .. Len(s)
    BY <2>0
  <2>3. n # 0 => n \in 1 .. Len(s) + 1 /\ Len(s) \in n - 1 .. Len(s)
    BY <2>0
  <2> QED
    BY <2>1, <2>2, <2>3, <1>4
<1>7. data \in Seq(C)
  <2>1. Len(c) \in Nat
    BY <1>2, LenProperties
  <2>2. ASSUME NEW n \in 0 .. Len(c), data = SubSeq(c, 1, n) PROVE data \in Seq(C)
    BY <1>2, <1>6, <2>2
  <2>3. ASSUME NEW n \in 1 .. Len(c),
               data = SubSeq(c, n, Len(c)) \/ data = SubSeq(c, 1, n) \o SubSeq(c, n, Len(c))
        PROVE  data \in Seq(C)
    <3>1. n \in 0 .. Len(c) /\ n # 0
      BY <2>1
    <3>2. SubSeq(c, 1, n) \in Seq(C) /\ SubSeq(c, n, Len(c)) \in Seq(C)
      BY <1>2, <1>6, <3>1
    <3> QED
      BY <1>5, <2>3, <3>2
  <2>4. ASSUME NEW n \in 0 .. Len(c), NEW j \in DOMAIN sealed, Len(sealed[j].cells) >= Len(c),
               data = SubSeq(c, 1, n) \o CellsFrom(sealed[j].cells, n)
        PROVE  data \in Seq(C)
    <3> DEFINE d == sealed[j].cells
    <3>1. d \in Seq(C)
      BY <1>1
    <3>2. Len(d) \in Nat /\ n \in 0 .. Len(d)
      BY <2>1, <2>4, <3>1, LenProperties
    <3> HIDE DEF d
    <3>3. SubSeq(d, n + 1, Len(d)) \in Seq(C)
      BY <1>6, <3>1, <3>2
    <3>4. SubSeq(c, 1, n) \in Seq(C)
      BY <1>2, <1>6
    <3> QED
      BY <1>5, <2>4, <3>3, <3>4 DEF CellsFrom, d
  <2>5. \/ \E n \in 0 .. Len(c) : data = SubSeq(c, 1, n)
        \/ \E n \in 1 .. Len(c) : data = SubSeq(c, n, Len(c))
        \/ \E n \in 1 .. Len(c) : data = SubSeq(c, 1, n) \o SubSeq(c, n, Len(c))
        \/ \E n \in 0 .. Len(c), j \in {m \in DOMAIN sealed : Len(sealed[m].cells) >= Len(c)} :
             data = SubSeq(c, 1, n) \o CellsFrom(sealed[j].cells, n)
    BY AlteredKinds
  <2> HIDE DEF c
  <2> QED
    BY <2>2, <2>3, <2>4, <2>5
<1>8. data \in Seq(Cells)
  BY <1>3, <1>7, SeqMonotonic
<1>9. \A i \in DOMAIN data : data[i] \in C
  BY <1>7, ElementOfSeq, LenProperties
<1> QED
  BY <1>8, <1>9 DEF C

(* What a profile as it is now derives again opens what it should open.    *)
LEMMA DerivedOpens ==
  ASSUME PasswordsInv, NEW k \in DOMAIN sealed, NEW w \in PasswordSet, NEW name \in ProfileNames,
         NEW service \in AesServices
  PROVE  OpensAgain(sealed[k], derivations[sealed[k].by], w, name, service)
<1> DEFINE s == sealed[k]
           d == derivations[s.by]
           key == d.result.hash
           again == DeriveKeyFromPasswordWithProfile(w, name, d.salt)
           opened == IF again.ok THEN DecryptJson(service, s.cells, again.hash) ELSE NotOk
<1>1. SealedBy(k, s) /\ k \in Nat
  BY DEF PasswordsInv
<1>2. /\ d \in DerivationType /\ Derives(d) /\ s.by \in Nat
      /\ d.result.ok /\ d.result # NotOk
  BY <1>1 DEF SealedBy, PasswordsInv, NotOk
<1>3. /\ d.result = DeriveKeyFromPassword(d.password, d.salt, d.config)
      /\ d.salt.bytes = d.config.saltBytes
      /\ key = Pbkdf2(d.password, d.salt, d.config) /\ key \in Hashes /\ d.salt \in Salts
  <2>1. d.result = DeriveKeyFromPassword(d.password, d.salt, d.config)
        /\ d.salt.bytes = d.config.saltBytes
    BY <1>2 DEF Derives
  <2>2. key \in Hashes /\ d.salt \in Salts
    BY <1>2 DEF DerivationType
  <2> QED
    BY <2>1, <2>2 DEF DeriveKeyFromPassword
<1>4. /\ s.service \in AesServices /\ s.value \in Values
      /\ KeyFits(s.service, key)
      /\ s = SealedWith(key, s.service, k, s.value, s.by)
  BY <1>1 DEF SealedBy
<1> HIDE DEF s, d, key
<1>5. CASE ~again.ok
  <2>1. ~(HasProfile(name) /\ w = d.password /\ profiles[name] = d.config)
    BY <1>3, <1>5 DEF DeriveKeyFromPasswordWithProfile, DeriveKeyFromPassword
  <2> QED
    BY <1>5, <2>1 DEF OpensAgain, NotOk, s, d
<1>6. CASE again.ok
  <2>1. HasProfile(name) /\ profiles[name] \in Configs
    BY <1>6 DEF DeriveKeyFromPasswordWithProfile, NotOk, HasProfile, PasswordsInv, Configs
  <2> DEFINE other == Pbkdf2(w, d.salt, profiles[name])
  <2>2. again.hash = other
    BY <1>6, <2>1 DEF DeriveKeyFromPasswordWithProfile, DeriveKeyFromPassword, NotOk
  <2>3. other \in Hashes
    BY <1>3, <2>1 DEF Pbkdf2, Hashes
  <2>4. other = key <=> w = d.password /\ profiles[name] = d.config
    BY <1>3 DEF Pbkdf2
  <2> HIDE DEF other
  <2>5. LET o == DecryptJson(service, s.cells, other)
        IN  /\ o.ok <=> /\ other = key /\ service = s.service
                        /\ service.ivCells = RequiredIvCells
            /\ o.ok => o.data = JsonCells(s.value)
            /\ DecryptSplit(service, s.cells, other) = o
    BY <1>1, <1>2, <1>3, <1>4, <2>3, OwnKeyOpens
  <2>6. opened = DecryptJson(service, s.cells, other)
    BY <1>6, <2>2
  <2> HIDE DEF opened
  <2>7. /\ opened.ok <=>
             /\ HasProfile(name) /\ w = d.password /\ profiles[name] = d.config
             /\ service = s.service /\ service.ivCells = RequiredIvCells
        /\ opened.ok => opened.data = JsonCells(s.value)
        /\ again.ok => DecryptSplit(service, s.cells, again.hash) = opened
    BY <2>1, <2>2, <2>4, <2>5, <2>6
  <2> QED
    BY <2>7 DEF OpensAgain, opened, s, d
<1> QED
  BY <1>5, <1>6

(* The behaviours of Identities are among those of PasswordsSpec.          *)
THEOREM PasswordsAmongIdentities == Spec => PasswordSpec
<1>1. Init => PasswordInit
  BY DEF Init
<1>2. [Next]_vars => [PasswordNext]_passwordVars
  BY DEF Next, vars
<1> QED
  BY <1>1, <1>2, PTL DEF Spec, PasswordSpec

(* What is sealed with a key from a password comes back to whoever has the *)
(* password, the salt and the configuration, and to nobody else, whatever  *)
(* profiles are registered meanwhile; a buffer that was cut or put         *)
(* together from two opens for nobody (pbkdf2.ts, aes-gcm.ts).             *)
THEOREM SealedAlwaysComesBack == PasswordSpec => []SealedComesBack
<1>1. PasswordInit => PasswordsInv
  BY DEF PasswordInit, PasswordsInv
<1>2. PasswordsInv => SealedComesBack
  <2> SUFFICES ASSUME PasswordsInv PROVE SealedComesBack
    OBVIOUS
  <2>1. ASSUME NEW i \in DOMAIN derivations PROVE DerivationRepeats(derivations[i])
    <3>1. Derives(derivations[i])
      BY DEF PasswordsInv
    <3> QED
      BY <3>1, ResultRepeats
  <2>2. ASSUME NEW k \in DOMAIN sealed, NEW data \in Altered(sealed[k].cells),
               DecryptJson(sealed[k].service, data, derivations[sealed[k].by].result.hash).ok
        PROVE  \E j \in DOMAIN sealed : data = sealed[j].cells
    <3>1. sealed[k].service \in AesServices
      BY DEF PasswordsInv, SealedBy
    <3> QED
      BY <2>2, <3>1, AlteredIsPutTogether, OnlyWholeOpens
  <2> QED
    BY <2>1, <2>2, DerivedOpens DEF SealedComesBack
<1> QED
  BY <1>1, <1>2, PasswordStep, PTL DEF PasswordSpec

(***************************************************************************)
(* Voting keys.  What is written of a key is read back as it was when it   *)
(* is made of numbers; so that comes first: recursion over the natural     *)
(* numbers, the digits of a number, the buffers, and that the derivation   *)
(* makes numbers, in particular that mu is one: the power of n + 1 that    *)
(* is inverted leaves 1 when it is divided by n, so it is at least 1.      *)
(***************************************************************************)
(* Recursion over numbers, with sets in the place of predicates.           *)

(* A set of numbers that is not empty has a least one.                     *)
LEMMA LeastNumber ==
  ASSUME NEW T \in SUBSET Nat, T # {}
  PROVE  \E x \in T : \A y \in T : x <= y
<1> DEFINE R == OpToRel(<, Nat)
<1>1. IsWellFoundedOn(R, Nat)
  BY NatLessThanWellFounded
<1>2. \A x, y \in Nat : y < x => <<y, x>> \in R
  BY DEF OpToRel
<1> HIDE DEF R
<1>3. PICK x \in T : \A y \in T : ~(<<y, x>> \in R)
  BY <1>1, WFMin
<1>4. ASSUME NEW y \in T PROVE x <= y
  <2>1. x \in Nat /\ y \in Nat /\ ~(<<y, x>> \in R)
    BY <1>3
  <2>2. ~(y < x)
    BY <1>2, <2>1
  <2> QED
    BY <2>1, <2>2
<1> QED
  BY <1>4

(* Induction over the numbers, for a set of numbers in the place of a predicate. *)
LEMMA NumbersInduction ==
  ASSUME NEW P, 0 \in P, \A n \in Nat : n \in P => n + 1 \in P
  PROVE  \A n \in Nat : n \in P
<1> DEFINE T == Nat \ P
<1>1. SUFFICES ASSUME T # {} PROVE FALSE
  OBVIOUS
<1>2. PICK x \in T : \A y \in T : x <= y
  BY <1>1, LeastNumber
<1>3. x # 0 /\ x \in Nat
  OBVIOUS
<1>4. x - 1 \in Nat /\ x - 1 \in P
  BY <1>2, <1>3
<1> QED
  BY <1>4, <1>3, (x - 1) + 1 = x

(* Induction in which all smaller numbers may be used. *)
LEMMA StrongInduction ==
  ASSUME NEW P, \A n \in Nat : (\A m \in 0 .. n - 1 : m \in P) => n \in P
  PROVE  \A n \in Nat : n \in P
<1> DEFINE T == Nat \ P
<1>1. SUFFICES ASSUME T # {} PROVE FALSE
  OBVIOUS
<1>2. PICK x \in T : \A y \in T : x <= y
  BY <1>1, LeastNumber
<1>3. ASSUME NEW m \in 0 .. x - 1 PROVE m \in P
  BY <1>2
<1> QED
  BY <1>3

(* D gives the value at x from a function; it looks only at lower ranks.   *)
IsRecursion(D, X, V, rank) ==
  /\ rank \in [X -> Nat] /\ V # {}
  /\ D \in [X -> [[X -> V] -> V]]
  /\ \A g, h \in [X -> V], x \in X :
       (\A y \in X : rank[y] < rank[x] => g[y] = h[y]) => D[x][g] = D[x][h]

(* What a function that follows the recursion below a rank is.             *)
FollowsBelow(f, n, D, X, rank) == \A x \in X : rank[x] < n => f[x] = D[x][f]

(* Two functions that follow a recursion so far agree so far.              *)
LEMMA FollowersAgree ==
  ASSUME NEW D, NEW X, NEW V, NEW rank, IsRecursion(D, X, V, rank),
         NEW f \in [X -> V], NEW h \in [X -> V], NEW n \in Nat,
         FollowsBelow(f, n, D, X, rank), FollowsBelow(h, n, D, X, rank)
  PROVE  \A x \in X : rank[x] < n => f[x] = h[x]
<1> USE DEF IsRecursion, FollowsBelow
<1> DEFINE Q == {k \in Nat : \A x \in X : rank[x] = k /\ k < n => f[x] = h[x]}
<1>1. ASSUME NEW k \in Nat, \A j \in 0 .. k - 1 : j \in Q PROVE k \in Q
  <2> SUFFICES ASSUME NEW x \in X, rank[x] = k, k < n PROVE f[x] = h[x]
    OBVIOUS
  <2>1. ASSUME NEW y \in X, rank[y] < rank[x] PROVE f[y] = h[y]
    <3>1. rank[y] \in 0 .. k - 1 /\ rank[y] < n
      BY <2>1
    <3> QED
      BY <1>1, <3>1
  <2>2. D[x][f] = D[x][h]
    BY <2>1
  <2> QED
    BY <2>2
<1> HIDE DEF Q
<1>2. \A k \in Nat : k \in Q
  BY <1>1, StrongInduction
<1> QED
  BY <1>2 DEF Q

(* A function that follows a recursion over ranks exists.                  *)
LEMMA Recursion ==
  ASSUME NEW D, NEW X, NEW V, NEW rank, IsRecursion(D, X, V, rank)
  PROVE  \E f \in [X -> V] : \A x \in X : f[x] = D[x][f]
<1> USE DEF IsRecursion, FollowsBelow
<1> DEFINE Upto(f, n) == FollowsBelow(f, n, D, X, rank)
           P == {n \in Nat : \E f \in [X -> V] : Upto(f, n)}
<1>1. 0 \in P
  <2>1. [x \in X |-> CHOOSE v \in V : TRUE] \in [X -> V]
    OBVIOUS
  <2>2. Upto([x \in X |-> CHOOSE v \in V : TRUE], 0)
    OBVIOUS
  <2> QED
    BY <2>1, <2>2
<1>2. ASSUME NEW n \in Nat, n \in P PROVE n + 1 \in P
  <2>1. PICK f \in [X -> V] : Upto(f, n)
    BY <1>2
  <2> DEFINE g == [x \in X |-> IF rank[x] < n THEN f[x] ELSE D[x][f]]
  <2>2. \A x \in X : D[x][f] \in V
    BY <2>1
  <2>3. g \in [X -> V]
    BY <2>2
  <2>4. ASSUME NEW x \in X, rank[x] < n + 1 PROVE g[x] = D[x][g]
    <3>1. g[x] = D[x][f]
      BY <2>1
    <3>2. \A y \in X : rank[y] < rank[x] => g[y] = f[y]
      BY <2>4
    <3> HIDE DEF g
    <3>3. D[x][g] = D[x][f]
      BY <2>3, <3>2
    <3> QED
      BY <3>1, <3>3
  <2>5. Upto(g, n + 1)
    BY <2>4
  <2> HIDE DEF g
  <2> QED
    BY <2>3, <2>5
<1>3. \A n \in Nat : n \in P
  BY <1>1, <1>2, NumbersInduction
<1> DEFINE F == [n \in Nat |-> CHOOSE f \in [X -> V] : Upto(f, n)]
           g == [x \in X |-> F[rank[x] + 1][x]]
<1>5. ASSUME NEW n \in Nat PROVE F[n] \in [X -> V] /\ Upto(F[n], n)
  BY <1>3
<1>6. \A x \in X : rank[x] \in Nat /\ rank[x] + 1 \in Nat
  OBVIOUS
<1> HIDE DEF F, FollowsBelow
<1>7. \A x \in X : F[rank[x] + 1] \in [X -> V]
  BY <1>5, <1>6
<1>8. g \in [X -> V]
  BY <1>7
<1>9. ASSUME NEW x \in X PROVE g[x] = D[x][g]
  <2> DEFINE r == rank[x]
             f == F[r + 1]
  <2>1. f \in [X -> V] /\ Upto(f, r + 1) /\ r \in Nat
    BY <1>5, <1>6
  <2>2. f[x] = D[x][f]
    BY <2>1 DEF FollowsBelow
  <2>3. ASSUME NEW y \in X, rank[y] < rank[x] PROVE g[y] = f[y]
    <3> DEFINE h == F[rank[y] + 1]
    <3>1. h \in [X -> V] /\ Upto(h, rank[y] + 1) /\ rank[y] \in Nat
      BY <1>5, <1>6
    <3>2. Upto(f, rank[y] + 1)
      BY <2>1, <2>3, <3>1 DEF FollowsBelow
    <3>3. rank[y] < rank[y] + 1 /\ rank[y] + 1 \in Nat
      BY <3>1
    <3> HIDE DEF h, f, r, IsRecursion
    <3>4. h[y] = f[y]
      <4>1. \A x1 \in X : rank[x1] < rank[y] + 1 => h[x1] = f[x1]
        BY FollowersAgree, <2>1, <3>1, <3>2, <3>3
      <4> QED
        BY <3>3, <4>1
    <3> QED
      BY <3>4 DEF h
  <2>4. g[x] = f[x]
    OBVIOUS
  <2> HIDE DEF g, f
  <2>5. D[x][g] = D[x][f]
    BY <1>8, <2>1, <2>3
  <2> QED
    BY <2>2, <2>4, <2>5
<1> HIDE DEF g
<1> QED
  BY <1>8, <1>9

-----------------------------------------------------------------------------
(* A number is read as it was written.                                     *)
Digit == 0 .. Base - 1

IsRest(f) == f = [m \in Nat |-> IF m = 0 THEN <<>> ELSE Append(f[m \div Base], m % Base)]

(* The last digit of a number and the number before it.                    *)
LEMMA LastDigit ==
  ASSUME NEW m \in Nat \ {0}
  PROVE  /\ m \div Base \in Nat /\ m \div Base < m /\ m % Base \in Digit
         /\ m = (m \div Base) * Base + (m % Base)
BY DEF Base, Digit

(* The digits without padding, as the code's toString computes them.       *)
LEMMA RestExists == \E f \in [Nat -> Seq(Digit)] : IsRest(f)
<1> DEFINE V == Seq(Digit)
           rank == [m \in Nat |-> m]
           D == [m \in Nat |-> [g \in [Nat -> V] |->
                   IF m = 0 THEN <<>> ELSE Append(g[m \div Base], m % Base)]]
<1>1. ASSUME NEW m \in Nat, NEW g \in [Nat -> V]
      PROVE  D[m][g] = IF m = 0 THEN <<>> ELSE Append(g[m \div Base], m % Base)
  BY DEF D
<1>2. ASSUME NEW m \in Nat, NEW g \in [Nat -> V] PROVE D[m][g] \in V
  <2>1. CASE m = 0
    BY <1>1, <2>1
  <2>2. CASE m # 0
    <3>1. m \div Base \in Nat /\ m % Base \in Digit
      BY <2>2, LastDigit
    <3>2. g[m \div Base] \in V
      BY <3>1
    <3> HIDE DEF Digit
    <3>3. Append(g[m \div Base], m % Base) \in V
      BY <3>1, <3>2
    <3> QED
      BY <1>1, <2>2, <3>3
  <2> QED
    BY <2>1, <2>2
<1>3. D \in [Nat -> [[Nat -> V] -> V]]
  <2>1. \A m \in Nat : D[m] = [g \in [Nat -> V] |-> D[m][g]]
    OBVIOUS
  <2>2. D = [m \in Nat |-> D[m]]
    OBVIOUS
  <2> HIDE DEF D, V
  <2> QED
    BY <1>2, <2>1, <2>2
<1>4. ASSUME NEW g \in [Nat -> V], NEW h \in [Nat -> V], NEW m \in Nat,
             \A y \in Nat : rank[y] < rank[m] => g[y] = h[y]
      PROVE  D[m][g] = D[m][h]
  <2>1. m # 0 => g[m \div Base] = h[m \div Base]
    BY <1>4, LastDigit
  <2> HIDE DEF D
  <2> QED
    BY <1>1, <2>1
<1>5. PICK f \in [Nat -> V] : \A m \in Nat : f[m] = D[m][f]
  <2>1. rank \in [Nat -> Nat] /\ V # {}
    BY EmptySeq
  <2> HIDE DEF V, rank, D
  <2>2. IsRecursion(D, Nat, V, rank)
    BY <1>3, <1>4, <2>1 DEF IsRecursion
  <2> QED
    BY <2>2, Recursion
<1>6. \A m \in Nat : f[m] = IF m = 0 THEN <<>> ELSE Append(f[m \div Base], m % Base)
  BY <1>1, <1>5
<1>7. f = [m \in Nat |-> f[m]]
  BY <1>5
<1> HIDE DEF D
<1>8. IsRest(f)
  BY <1>6, <1>7, Zenon DEF IsRest
<1> QED
  BY <1>8

(* Digits, by such a function.                                             *)
LEMMA DigitsByDefinition ==
  \E f : /\ IsRest(f)
         /\ \A n : Digits(n) = [i \in 1 .. Padding - Len(f[n]) |-> 0] \o f[n]
<1> DEFINE F == CHOOSE f : IsRest(f)
<1>1. \A n : Digits(n) = [i \in 1 .. Padding - Len(F[n]) |-> 0] \o F[n]
  BY Zenon DEF Digits, IsRest
<1>2. \E f : IsRest(f)
  BY RestExists
<1>3. IsRest(F)
  BY <1>2, Zenon
<1> QED
  BY <1>1, <1>3, Zenon

IsValue(f, s) ==
  f = [i \in 0 .. Len(s) |-> IF i = 0 THEN 0 ELSE f[i - 1] * Base + s[i]]

(* There is one for every sequence of digits.                              *)
LEMMA ValueExists ==
  ASSUME NEW s \in Seq(Digit)
  PROVE  \E f \in [0 .. Len(s) -> Nat] : IsValue(f, s)
<1> DEFINE X == 0 .. Len(s)
           rank == [i \in X |-> i]
           D == [i \in X |-> [g \in [X -> Nat] |-> IF i = 0 THEN 0 ELSE g[i - 1] * Base + s[i]]]
<1>1. ASSUME NEW i \in X, NEW g \in [X -> Nat]
      PROVE  D[i][g] = IF i = 0 THEN 0 ELSE g[i - 1] * Base + s[i]
  BY DEF D
<1>2. Len(s) \in Nat /\ \A i \in X : i # 0 => i - 1 \in X /\ s[i] \in Nat
  <2>1. Len(s) \in Nat /\ \A i \in 1 .. Len(s) : s[i] \in Digit
    BY LenProperties, ElementOfSeq
  <2>2. ASSUME NEW i \in X, i # 0 PROVE i - 1 \in X /\ i \in 1 .. Len(s)
    BY <2>1, <2>2
  <2>3. \A d \in Digit : d \in Nat
    BY DEF Digit, Base
  <2> HIDE DEF X, D, rank
  <2> QED
    BY <2>1, <2>2, <2>3
<1>3. ASSUME NEW i \in X, NEW g \in [X -> Nat] PROVE D[i][g] \in Nat
  <2>1. i # 0 => g[i - 1] \in Nat /\ s[i] \in Nat
    BY <1>2
  <2> HIDE DEF D, X
  <2> QED
    BY <1>1, <2>1 DEF Base
<1>4. D \in [X -> [[X -> Nat] -> Nat]]
  <2>1. \A i \in X : D[i] = [g \in [X -> Nat] |-> D[i][g]]
    OBVIOUS
  <2>2. D = [i \in X |-> D[i]]
    OBVIOUS
  <2> HIDE DEF D, X
  <2> QED
    BY <1>3, <2>1, <2>2
<1>5. ASSUME NEW g \in [X -> Nat], NEW h \in [X -> Nat], NEW i \in X,
             \A y \in X : rank[y] < rank[i] => g[y] = h[y]
      PROVE  D[i][g] = D[i][h]
  <2>1. i # 0 => g[i - 1] = h[i - 1]
    BY <1>2, <1>5
  <2> HIDE DEF D
  <2> QED
    BY <1>1, <2>1
<1>6. PICK f \in [X -> Nat] : \A i \in X : f[i] = D[i][f]
  <2>1. rank \in [X -> Nat]
    BY <1>2
  <2> HIDE DEF X, rank, D
  <2>2. IsRecursion(D, X, Nat, rank)
    BY <1>4, <1>5, <2>1 DEF IsRecursion
  <2> QED
    BY <2>2, Recursion
<1>7. \A i \in X : f[i] = IF i = 0 THEN 0 ELSE f[i - 1] * Base + s[i]
  BY <1>1, <1>6
<1>8. f = [i \in X |-> f[i]]
  BY <1>6
<1> HIDE DEF D
<1>9. IsValue(f, s)
  BY <1>7, <1>8, Zenon DEF IsValue
<1> QED
  BY <1>6, <1>9

(* Number, by such a function.                                             *)
LEMMA NumberByDefinition ==
  ASSUME NEW s, \E f : IsValue(f, s)
  PROVE  \E f : IsValue(f, s) /\ Number(s) = f[Len(s)]
<1> DEFINE F == CHOOSE f : IsValue(f, s)
<1>1. Number(s) = F[Len(s)]
  BY Zenon DEF Number, IsValue
<1>2. IsValue(F, s)
  BY Zenon
<1> QED
  BY <1>1, <1>2, Zenon

(* Is s what t has behind k elements?                                      *)
IsBehind(s, t, k) == k + Len(s) <= Len(t) /\ \A i \in 1 .. Len(s) : t[k + i] = s[i]

(* The value of a part of a sequence is that of the part alone, when what  *)
(* stands before it counts nothing.                                        *)
LEMMA ValueOfPart ==
  ASSUME NEW s \in Seq(Digit), NEW t \in Seq(Digit), NEW f, NEW g, IsValue(f, s), IsValue(g, t),
         NEW k \in Nat, IsBehind(s, t, k), g[k] = 0
  PROVE  \A i \in 0 .. Len(s) : g[k + i] = f[i]
<1> USE DEF IsBehind
<1> DEFINE P == {i \in Nat : i <= Len(s) => g[k + i] = f[i]}
<1>1. Len(s) \in Nat /\ Len(t) \in Nat
  BY LenProperties
<1>2. \A i \in 0 .. Len(s) : f[i] = IF i = 0 THEN 0 ELSE f[i - 1] * Base + s[i]
  BY DEF IsValue
<1>3. \A i \in 0 .. Len(t) : g[i] = IF i = 0 THEN 0 ELSE g[i - 1] * Base + t[i]
  BY DEF IsValue
<1>4. 0 \in P
  BY <1>1, <1>2
<1>5. ASSUME NEW i \in Nat, i \in P PROVE i + 1 \in P
  <2> SUFFICES ASSUME i + 1 <= Len(s) PROVE g[k + (i + 1)] = f[i + 1]
    OBVIOUS
  <2>1. g[k + i] = f[i] /\ t[k + (i + 1)] = s[i + 1]
    BY <1>1, <1>5
  <2>2. f[i + 1] = f[i] * Base + s[i + 1]
    BY <1>1, <1>2
  <2>3. g[k + (i + 1)] = g[k + i] * Base + t[k + (i + 1)]
    <3>1. k + (i + 1) \in 0 .. Len(t) /\ k + (i + 1) # 0 /\ (k + (i + 1)) - 1 = k + i
      BY <1>1
    <3> QED
      BY <1>3, <3>1
  <2> QED
    BY <2>1, <2>2, <2>3
<1> HIDE DEF P
<1>6. \A i \in Nat : i \in P
  BY <1>4, <1>5, NumbersInduction
<1> QED
  BY <1>1, <1>6 DEF P

(* Zeros in front do not count.                                            *)
LEMMA ZerosInFront ==
  ASSUME NEW s \in Seq(Digit), NEW t \in Seq(Digit), NEW k \in Nat, Len(t) = k + Len(s),
         \A i \in 1 .. k : t[i] = 0, \A i \in 1 .. Len(s) : t[k + i] = s[i]
  PROVE  Number(t) = Number(s)
<1>1. Len(s) \in Nat /\ Len(t) \in Nat
  BY LenProperties
<1>2. PICK f : IsValue(f, s) /\ Number(s) = f[Len(s)]
  BY ValueExists, NumberByDefinition
<1>3. PICK g : IsValue(g, t) /\ Number(t) = g[Len(t)]
  BY ValueExists, NumberByDefinition
<1>4. \A i \in 0 .. Len(t) : g[i] = IF i = 0 THEN 0 ELSE g[i - 1] * Base + t[i]
  BY <1>3 DEF IsValue
<1> DEFINE P == {i \in Nat : i <= k => g[i] = 0}
<1>5. 0 \in P
  BY <1>1, <1>4
<1>6. ASSUME NEW i \in Nat, i \in P PROVE i + 1 \in P
  BY <1>1, <1>4, <1>6 DEF Base
<1> HIDE DEF P
<1>7. \A i \in Nat : i \in P
  BY <1>5, <1>6, NumbersInduction
<1>8. g[k] = 0
  BY <1>7 DEF P
<1>9. g[k + Len(s)] = f[Len(s)]
  <2>1. IsBehind(s, t, k)
    BY <1>1 DEF IsBehind
  <2>2. \A i \in 0 .. Len(s) : g[k + i] = f[i]
    BY <1>1, <1>2, <1>3, <1>8, <2>1, ValueOfPart
  <2> QED
    BY <1>1, <2>2
<1> QED
  BY <1>2, <1>3, <1>9

(* One digit more. *)
LEMMA NumberOfAppend ==
  ASSUME NEW s \in Seq(Digit), NEW d \in Digit
  PROVE  Number(Append(s, d)) = Number(s) * Base + d
<1> DEFINE t == Append(s, d)
<1>1. /\ Len(s) \in Nat /\ t \in Seq(Digit) /\ Len(t) = Len(s) + 1 /\ t[Len(s) + 1] = d
      /\ \A i \in 1 .. Len(s) : t[0 + i] = s[i]
  BY AppendProperties, LenProperties
<1> HIDE DEF t
<1>2. IsBehind(s, t, 0)
  BY <1>1 DEF IsBehind
<1>3. PICK f : IsValue(f, s) /\ Number(s) = f[Len(s)]
  BY ValueExists, NumberByDefinition
<1>4. PICK g : IsValue(g, t) /\ Number(t) = g[Len(t)]
  BY <1>1, ValueExists, NumberByDefinition
<1>5. \A i \in 0 .. Len(t) : g[i] = IF i = 0 THEN 0 ELSE g[i - 1] * Base + t[i]
  BY <1>4 DEF IsValue
<1>6. g[0] = 0
  BY <1>1, <1>5
<1>7. g[0 + Len(s)] = f[Len(s)]
  BY <1>1, <1>3, <1>4, <1>6, <1>2, ValueOfPart
<1>8. g[Len(s) + 1] = g[Len(s)] * Base + d
  BY <1>1, <1>5
<1> QED
  BY <1>1, <1>3, <1>4, <1>7, <1>8 DEF t

(* What parseInt makes of what toString and padStart have made.            *)
LEMMA DigitsComeBack ==
  ASSUME NEW n \in Nat
  PROVE  /\ Digits(n) \in Seq(Digit) /\ Len(Digits(n)) >= Padding
         /\ Number(Digits(n)) = n
<1>1. PICK f : /\ IsRest(f)
               /\ \A m : Digits(m) = [i \in 1 .. Padding - Len(f[m]) |-> 0] \o f[m]
  BY DigitsByDefinition
<1>2. \A m \in Nat : f[m] = IF m = 0 THEN <<>> ELSE Append(f[m \div Base], m % Base)
  BY <1>1 DEF IsRest
<1> DEFINE P == {m \in Nat : f[m] \in Seq(Digit) /\ Number(f[m]) = m}
<1>3. ASSUME NEW m \in Nat, \A j \in 0 .. m - 1 : j \in P PROVE m \in P
  <2>1. CASE m = 0
    <3>1. PICK g : IsValue(g, <<>>) /\ Number(<<>>) = g[Len(<<>>)]
      BY EmptySeq, ValueExists, NumberByDefinition
    <3>2. g[0] = 0 /\ Len(<<>>) = 0
      BY <3>1 DEF IsValue
    <3>3. f[m] = <<>> /\ <<>> \in Seq(Digit)
      BY <1>2, <2>1, EmptySeq
    <3> QED
      BY <2>1, <3>1, <3>2, <3>3
  <2>2. CASE m # 0
    <3> DEFINE rest == m \div Base
               last == m % Base
    <3>1. rest \in Nat /\ rest < m /\ last \in Digit /\ m = rest * Base + last
      BY <2>2, LastDigit
    <3>2. f[m] = Append(f[rest], last)
      BY <1>2, <2>2
    <3> HIDE DEF rest, last
    <3>3. f[rest] \in Seq(Digit) /\ Number(f[rest]) = rest
      BY <1>3, <3>1
    <3>4. Append(f[rest], last) \in Seq(Digit) /\ Number(Append(f[rest], last)) = rest * Base + last
      BY <3>1, <3>3, NumberOfAppend, AppendProperties
    <3> QED
      BY <3>1, <3>2, <3>4
  <2> QED
    BY <2>1, <2>2
<1> HIDE DEF P
<1>4. \A m \in Nat : m \in P
  BY <1>3, StrongInduction
<1> DEFINE s == f[n]
           zeros == [i \in 1 .. Padding - Len(s) |-> 0]
           k == Len(zeros)
<1>5. s \in Seq(Digit) /\ Number(s) = n /\ Len(s) \in Nat
  BY <1>4, LenProperties DEF P
<1>6. Digits(n) = zeros \o s
  BY <1>1
<1> HIDE DEF s
<1>7. /\ zeros \in Seq(Digit) /\ k \in Nat /\ (Len(s) <= Padding => k = Padding - Len(s))
      /\ \A i \in 1 .. k : zeros[i] = 0
  <2>1. CASE Len(s) <= Padding
    <3>1. Padding - Len(s) \in Nat
      BY <1>5, <2>1 DEF Padding
    <3>2. zeros \in Seq(Digit) /\ k = Padding - Len(s)
      BY <3>1 DEF Digit, Base
    <3> QED
      BY <3>1, <3>2
  <2>2. CASE ~(Len(s) <= Padding)
    <3>1. 1 .. Padding - Len(s) = {}
      BY <1>5, <2>2 DEF Padding
    <3>2. zeros = <<>>
      BY <3>1
    <3> HIDE DEF zeros
    <3> QED
      BY <2>2, <3>2
  <2> QED
    BY <2>1, <2>2
<1> HIDE DEF zeros
<1> DEFINE t == zeros \o s
<1>8. /\ t \in Seq(Digit) /\ Len(t) = k + Len(s)
      /\ \A i \in 1 .. k : t[i] = 0
      /\ \A i \in 1 .. Len(s) : t[k + i] = s[i]
  BY <1>5, <1>7
<1> HIDE DEF t, k
<1>9. Number(t) = Number(s)
  BY <1>5, <1>7, <1>8, ZerosInFront
<1>10. Len(t) >= Padding
  BY <1>5, <1>7, <1>8 DEF Padding
<1> QED
  BY <1>5, <1>6, <1>8, <1>9, <1>10 DEF t

-----------------------------------------------------------------------------
(* What is stored is read back, and nothing else is taken for it.          *)

(* A buffer with its checksum, whatever its cells are.                     *)
IsChecked(b) == \E T : \E p \in Seq(T) : b = WithChecksum(p)

(* One sequence behind another.                                            *)
LEMMA JoinedIs ==
  ASSUME NEW T, NEW a \in Seq(T), NEW b \in Seq(T)
  PROVE  /\ a \o b \in Seq(T) /\ Len(a \o b) = Len(a) + Len(b)
         /\ Len(a) \in Nat /\ Len(b) \in Nat
         /\ \A i \in 1 .. Len(a) : (a \o b)[i] = a[i]
         /\ \A i \in 1 .. Len(b) : (a \o b)[Len(a) + i] = b[i]
OBVIOUS

(* The part between two others.                                            *)
LEMMA SliceIsPart ==
  ASSUME NEW T, NEW a \in Seq(T), NEW b \in Seq(T), NEW c \in Seq(T)
  PROVE  Slice((a \o b) \o c, Len(a), Len(b)) = b
<1> DEFINE s == (a \o b) \o c
           m == Len(a)
           k == Len(b)
<1>1. /\ s \in Seq(T) /\ m \in Nat /\ k \in Nat /\ Len(s) >= m + k
      /\ \A i \in 1 .. k : s[m + i] = b[i]
  <2>1. /\ a \o b \in Seq(T) /\ Len(a \o b) = m + k /\ m \in Nat /\ k \in Nat
        /\ \A i \in 1 .. k : (a \o b)[m + i] = b[i]
    OBVIOUS
  <2> DEFINE ab == a \o b
  <2> HIDE DEF ab, m, k
  <2>2. /\ ab \o c \in Seq(T) /\ Len(ab \o c) >= Len(ab)
        /\ \A i \in 1 .. Len(ab) : (ab \o c)[i] = ab[i]
    BY <2>1 DEF ab
  <2>3. \A i \in 1 .. k : m + i \in 1 .. Len(ab)
    BY <2>1 DEF ab
  <2> QED
    BY <2>1, <2>2, <2>3 DEF ab
<1> HIDE DEF s, m, k
<1> DEFINE r == SubSeq(s, m + 1, m + k)
<1>2. Slice(s, m, k) = r
  <2>1. Len(s) \in Nat
    BY <1>1, LenProperties
  <2>2. (IF m + k < Len(s) THEN m + k ELSE Len(s)) = m + k
    BY <1>1, <2>1
  <2> QED
    BY <2>2 DEF Slice
<1>3. \A i \in m + 1 .. m + k : i \in 1 .. Len(s)
  BY <1>1, LenProperties
<1>4. /\ r \in Seq(T) /\ Len(r) = IF m + 1 <= m + k THEN (m + k) - (m + 1) + 1 ELSE 0
      /\ \A i \in 1 .. (m + k) - (m + 1) + 1 : r[i] = s[(m + 1) + i - 1]
  BY <1>1, <1>3, SubSeqProperties
<1> HIDE DEF r
<1>5. Len(r) = k
  BY <1>1, <1>4
<1>6. \A i \in 1 .. k : r[i] = b[i]
  <2> SUFFICES ASSUME NEW i \in 1 .. k PROVE r[i] = b[i]
    OBVIOUS
  <2>1. i \in 1 .. (m + k) - (m + 1) + 1 /\ (m + 1) + i - 1 = m + i
    BY <1>1
  <2> QED
    BY <1>1, <1>4, <2>1
<1>7. r = b
  BY <1>4, <1>5, <1>6, SeqEqual DEF k
<1> QED
  BY <1>2, <1>7 DEF s, m, k

(* The digits of a number are taken for one.                               *)
LEMMA DigitsAreNumber ==
  ASSUME NEW n \in Nat
  PROVE  IsNumber(Digits(n))
<1>1. Digits(n) \in Seq(Digit) /\ Len(Digits(n)) >= Padding
  BY DigitsComeBack
<1>2. \A d \in Digit : d < Base
  BY DEF Digit, Base
<1>3. \A i \in DOMAIN Digits(n) : Digits(n)[i] < Base
  BY <1>1, <1>2
<1>4. Digits(n) # <<>>
  BY <1>1 DEF Padding
<1> QED
  BY <1>3, <1>4 DEF IsNumber

(* What a reader sees of a buffer that was written.                        *)
LEMMA WrittenHeader ==
  ASSUME NEW T, NEW p \in Seq(T), NEW h \in Nat, Len(p) >= h,
         p[1] = KeyMagic, p[2] = KeyVersion, h > 0
  PROVE  /\ HeaderError(WithChecksum(p), h) = "none"
         /\ WithChecksum(p).payload = p
         /\ ChecksumMatches(WithChecksum(p), Len(p))
<1> DEFINE b == WithChecksum(p)
<1>1. b.payload = p /\ b.digestOf = p
  BY DEF WithChecksum
<1>2. p # <<>> /\ Len(p) \in Nat
  BY LenProperties
<1> HIDE DEF b
<1>3. BufferLength(b) = Len(p) + 1
  BY <1>1, <1>2 DEF BufferLength
<1>4. ~(BufferLength(b) < h + 1)
  BY <1>2, <1>3
<1>5. HeaderError(b, h) = "none"
  BY <1>1, <1>4 DEF HeaderError
<1> QED
  BY <1>1, <1>5 DEF b, ChecksumMatches

(* A public key of an instance comes back with its ids.                    *)
LEMMA IsolatedComesBack ==
  ASSUME NEW key, key.n \in Nat,
         key = [n |-> key.n, keyId |-> key.keyId, instanceId |-> key.instanceId]
  PROVE  /\ BufferToIsolatedPublicKey(IsolatedPublicKeyToBuffer(key)) = [ok |-> TRUE, key |-> key]
         /\ IsChecked(IsolatedPublicKeyToBuffer(key))
<1> DEFINE D == Digits(key.n)
           L == Len(D)
           T == {KeyMagic, KeyVersion, key.keyId, key.instanceId, L} \union Digit
           h == <<KeyMagic, KeyVersion, key.keyId, key.instanceId, L>>
           p == h \o D
           b == IsolatedPublicKeyToBuffer(key)
<1>1. D \in Seq(Digit) /\ IsNumber(D) /\ Number(D) = key.n /\ L \in Nat
  BY DigitsComeBack, DigitsAreNumber, LenProperties
<1> HIDE DEF D
<1>2. D \in Seq(T) /\ h \in Seq(T) /\ Len(h) = 5
  BY <1>1
<1>3. h[1] = KeyMagic /\ h[2] = KeyVersion /\ h[3] = key.keyId /\ h[4] = key.instanceId /\ h[5] = L
  OBVIOUS
<1>4. b = WithChecksum(p)
  BY DEF IsolatedPublicKeyToBuffer, D
<1> HIDE DEF L, T, h, b
<1>5. p \in Seq(T) /\ Len(p) = 5 + L /\ \A i \in 1 .. 5 : p[i] = h[i]
  <2> h \in Seq(T) /\ D \in Seq(T)
    BY <1>2
  <2>1. /\ p \in Seq(T) /\ Len(p) = Len(h) + Len(D)
        /\ \A i \in 1 .. Len(h) : p[i] = h[i]
    BY JoinedIs
  <2> HIDE DEF p
  <2> QED
    BY <1>2, <2>1 DEF L
<1>6. Slice(p, 5, L) = D
  <2>1. p = p \o <<>> /\ <<>> \in Seq(T)
    BY <1>5
  <2>2. Slice((h \o D) \o <<>>, Len(h), Len(D)) = D
    BY <1>2, <2>1, SliceIsPart
  <2> QED
    BY <1>2, <2>1, <2>2 DEF L
<1> HIDE DEF p
<1>7. HeaderError(b, 5) = "none" /\ b.payload = p /\ ChecksumMatches(b, 5 + L)
  <2>1. Len(p) >= 5 /\ p[1] = KeyMagic /\ p[2] = KeyVersion
    BY <1>1, <1>3, <1>5
  <2> QED
    BY <1>4, <1>5, <2>1, WrittenHeader
<1>8. p[3] = key.keyId /\ p[4] = key.instanceId /\ p[5] = L
  BY <1>3, <1>5
<1>9. BufferToIsolatedPublicKey(b) = [ok |-> TRUE, key |-> key]
  BY <1>1, <1>6, <1>7, <1>8 DEF BufferToIsolatedPublicKey
<1> QED
  BY <1>4, <1>5, <1>9 DEF b, IsChecked

(* So does the modulus of a public key.                                    *)
LEMMA PublicComesBack ==
  ASSUME NEW n \in Nat
  PROVE  /\ BufferToVotingPublicKey(VotingPublicKeyToBuffer(n)) = [ok |-> TRUE, n |-> n]
         /\ IsChecked(VotingPublicKeyToBuffer(n))
<1> DEFINE D == Digits(n)
           L == Len(D)
           T == {KeyMagic, KeyVersion, KeyIdOf(n), L} \union Digit
           h == <<KeyMagic, KeyVersion, KeyIdOf(n), L>>
           p == h \o D
           b == VotingPublicKeyToBuffer(n)
<1>1. D \in Seq(Digit) /\ IsNumber(D) /\ Number(D) = n /\ L \in Nat
  BY DigitsComeBack, DigitsAreNumber, LenProperties
<1> HIDE DEF D
<1>2. D \in Seq(T) /\ h \in Seq(T) /\ Len(h) = 4
  BY <1>1
<1>3. h[1] = KeyMagic /\ h[2] = KeyVersion /\ h[3] = KeyIdOf(n) /\ h[4] = L
  OBVIOUS
<1>4. b = WithChecksum(p)
  BY DEF VotingPublicKeyToBuffer, D
<1> HIDE DEF L, T, h, b
<1>5. p \in Seq(T) /\ Len(p) = 4 + L /\ \A i \in 1 .. 4 : p[i] = h[i]
  <2> h \in Seq(T) /\ D \in Seq(T)
    BY <1>2
  <2>1. /\ p \in Seq(T) /\ Len(p) = Len(h) + Len(D)
        /\ \A i \in 1 .. Len(h) : p[i] = h[i]
    BY JoinedIs
  <2> HIDE DEF p
  <2> QED
    BY <1>2, <2>1 DEF L
<1>6. Slice(p, 4, L) = D
  <2>1. p = p \o <<>> /\ <<>> \in Seq(T)
    BY <1>5
  <2>2. Slice((h \o D) \o <<>>, Len(h), Len(D)) = D
    BY <1>2, <2>1, SliceIsPart
  <2> QED
    BY <1>2, <2>1, <2>2 DEF L
<1> HIDE DEF p
<1>7. HeaderError(b, 4) = "none" /\ b.payload = p /\ ChecksumMatches(b, 4 + L)
  <2>1. Len(p) >= 4 /\ p[1] = KeyMagic /\ p[2] = KeyVersion
    BY <1>1, <1>3, <1>5
  <2> QED
    BY <1>4, <1>5, <2>1, WrittenHeader
<1>8. p[3] = KeyIdOf(n) /\ p[4] = L
  BY <1>3, <1>5
<1>9. BufferToVotingPublicKey(b) = [ok |-> TRUE, n |-> n]
  BY <1>1, <1>6, <1>7, <1>8 DEF BufferToVotingPublicKey
<1> QED
  BY <1>4, <1>5, <1>9 DEF b, IsChecked

(* And the two numbers of a private key.                                   *)
LEMMA PrivateComesBack ==
  ASSUME NEW lambda \in Nat, NEW mu \in Nat
  PROVE  /\ BufferToVotingPrivateKey(VotingPrivateKeyToBuffer(lambda, mu)) =
              [ok |-> TRUE, lambda |-> lambda, mu |-> mu]
         /\ IsChecked(VotingPrivateKeyToBuffer(lambda, mu))
<1> DEFINE D == Digits(lambda)
           E == Digits(mu)
           L == Len(D)
           M == Len(E)
           T == {KeyMagic, KeyVersion, L, M} \union Digit
           h == <<KeyMagic, KeyVersion, L>>
           front == h \o D
           one == <<M>>
           p == (front \o one) \o E
           b == VotingPrivateKeyToBuffer(lambda, mu)
<1>1. /\ D \in Seq(Digit) /\ IsNumber(D) /\ Number(D) = lambda /\ L \in Nat
      /\ E \in Seq(Digit) /\ IsNumber(E) /\ Number(E) = mu /\ M \in Nat
  BY DigitsComeBack, DigitsAreNumber, LenProperties
<1>4. b = WithChecksum(p)
  BY DEF VotingPrivateKeyToBuffer
<1> HIDE DEF D, E
<1>2. /\ D \in Seq(T) /\ E \in Seq(T) /\ h \in Seq(T) /\ Len(h) = 3
      /\ one \in Seq(T) /\ Len(one) = 1 /\ one[1] = M
  BY <1>1
<1>3. h[1] = KeyMagic /\ h[2] = KeyVersion /\ h[3] = L
  OBVIOUS
<1> HIDE DEF L, M, T, h, b, one
<1>5. front \in Seq(T) /\ Len(front) = 3 + L /\ \A i \in 1 .. 3 : front[i] = h[i]
  <2>1. /\ front \in Seq(T) /\ Len(front) = Len(h) + Len(D)
        /\ \A i \in 1 .. Len(h) : front[i] = h[i]
    <3> h \in Seq(T) /\ D \in Seq(T)
      BY <1>2
    <3> QED
      BY JoinedIs
  <2> HIDE DEF front
  <2> QED
    BY <1>2, <2>1 DEF L
<1> HIDE DEF front
<1> DEFINE both == front \o one
<1>6. /\ both \in Seq(T) /\ Len(both) = 4 + L /\ both[4 + L] = M
      /\ \A i \in 1 .. 3 : both[i] = h[i]
  <2>1. /\ both \in Seq(T) /\ Len(both) = Len(front) + Len(one)
        /\ \A i \in 1 .. Len(one) : both[Len(front) + i] = one[i]
        /\ \A i \in 1 .. Len(front) : both[i] = front[i]
    <3> front \in Seq(T) /\ one \in Seq(T)
      BY <1>2, <1>5
    <3> QED
      BY JoinedIs
  <2> HIDE DEF both
  <2> QED
    BY <1>1, <1>2, <1>5, <2>1
<1> HIDE DEF both
<1>7. /\ p \in Seq(T) /\ Len(p) = 4 + L + M /\ p[4 + L] = M /\ \A i \in 1 .. 3 : p[i] = h[i]
  <2>1. /\ both \o E \in Seq(T) /\ Len(both \o E) = Len(both) + Len(E)
        /\ \A i \in 1 .. Len(both) : (both \o E)[i] = both[i]
    <3> both \in Seq(T) /\ E \in Seq(T)
      BY <1>2, <1>6
    <3> QED
      BY JoinedIs
  <2>2. p = both \o E /\ Len(E) = M
    BY DEF both, M
  <2> HIDE DEF p
  <2> QED
    BY <1>1, <1>6, <2>1, <2>2
<1>8. Slice(p, 4 + L, M) = E
  <2>1. p = both \o E /\ p = (both \o E) \o <<>> /\ <<>> \in Seq(T)
    BY <1>2, <1>6 DEF both
  <2>2. Slice((both \o E) \o <<>>, Len(both), Len(E)) = E
    BY <1>2, <1>6, <2>1, SliceIsPart
  <2> HIDE DEF p
  <2> QED
    BY <1>6, <2>1, <2>2 DEF M
<1>9. Slice(p, 3, L) = D
  <2> DEFINE c == one \o E
  <2>1. one \in Seq(T) /\ E \in Seq(T) /\ front \in Seq(T)
    BY <1>2, <1>5
  <2>2. c \in Seq(T)
    BY <2>1
  <2>3. p = front \o c
    <3>1. p = (front \o one) \o E
      BY DEF both
    <3> HIDE DEF p
    <3> QED
      BY <2>1, <3>1, ConcatAssociative
  <2>4. c \in Seq(T) /\ p = (h \o D) \o c
    BY <2>2, <2>3 DEF front
  <2> HIDE DEF p, c
  <2>5. Slice((h \o D) \o c, Len(h), Len(D)) = D
    BY <1>2, <2>4, SliceIsPart
  <2> QED
    BY <1>2, <2>4, <2>5 DEF L
<1> HIDE DEF p
<1>10. HeaderError(b, 4) = "none" /\ b.payload = p /\ ChecksumMatches(b, 4 + L + M)
  <2>1. Len(p) >= 4 /\ p[1] = KeyMagic /\ p[2] = KeyVersion
    BY <1>1, <1>3, <1>7
  <2> QED
    BY <1>4, <1>7, <2>1, WrittenHeader
<1>11. p[3] = L /\ ~(4 + L > Len(p))
  BY <1>1, <1>3, <1>7
<1>12. BufferToVotingPrivateKey(b) = [ok |-> TRUE, lambda |-> lambda, mu |-> mu]
  BY <1>1, <1>7, <1>8, <1>9, <1>10, <1>11 DEF BufferToVotingPrivateKey
<1> QED
  BY <1>4, <1>7, <1>12 DEF b, IsChecked

(* A damaged buffer whose checksum fits is the one that was written.       *)
LEMMA FittingIsWhole ==
  ASSUME NEW T, NEW p \in Seq(T), NEW b \in Damaged(WithChecksum(p)), NEW h \in Nat, NEW l,
         HeaderError(b, h) = "none", ChecksumMatches(b, l)
  PROVE  b = WithChecksum(p)
<1>1. WithChecksum(p).payload = p /\ WithChecksum(p).digestOf = p
  BY DEF WithChecksum
<1>2. b.digestOf = b.payload
  BY DEF ChecksumMatches
<1>3. b.payload # <<>>
  <2>1. SUFFICES ASSUME b.payload = <<>> PROVE FALSE
    OBVIOUS
  <2>2. BufferLength(b) = 0
    BY <1>2, <2>1 DEF BufferLength
  <2>3. HeaderError(b, h) = "too short"
    BY <2>2 DEF HeaderError
  <2> QED
    BY <2>3
<1>4. ASSUME NEW i, b = [payload |-> SubSeq(p, 1, i), digestOf |-> <<>>] PROVE FALSE
  BY <1>2, <1>3, <1>4
<1>5. ASSUME NEW i, NEW x, b = [WithChecksum(p) EXCEPT !.payload[i] = x]
      PROVE  b = WithChecksum(p)
  <2>1. b = [payload |-> [p EXCEPT ![i] = x], digestOf |-> p]
    BY <1>1, <1>5 DEF WithChecksum
  <2>2. b.payload = [p EXCEPT ![i] = x] /\ b.digestOf = p
    BY <2>1
  <2>3. [p EXCEPT ![i] = x] = p
    BY <1>2, <2>2
  <2> QED
    BY <2>1, <2>3 DEF WithChecksum
<1> DEFINE w == WithChecksum(p)
<1>6. \/ \E i : b = [payload |-> SubSeq(w.payload, 1, i), digestOf |-> <<>>]
      \/ \E i, x : b = [w EXCEPT !.payload[i] = x]
  <2> HIDE DEF w
  <2>1. b \in Damaged(w)
    BY DEF w
  <2>2. \/ b \in {[payload |-> SubSeq(w.payload, 1, i), digestOf |-> <<>>] : i \in 0 .. Len(w.payload)}
        \/ \E i \in DOMAIN w.payload : b \in {[w EXCEPT !.payload[i] = x] : x \in {0, 1, Junk}}
    BY <2>1 DEF Damaged
  <2> QED
    BY <2>2
<1> QED
  BY <1>1, <1>4, <1>5, <1>6, Zenon

(* No damaged buffer is taken for a key.                                   *)
LEMMA DamageIsNoticed ==
  ASSUME NEW T, NEW p \in Seq(T), NEW b \in Damaged(WithChecksum(p)),
         \/ BufferToIsolatedPublicKey(b).ok
         \/ BufferToVotingPublicKey(b).ok
         \/ BufferToVotingPrivateKey(b).ok
  PROVE  b = WithChecksum(p)
<1>1. \A e : ~Refused(e).ok
  BY DEF Refused
<1>2. CASE BufferToIsolatedPublicKey(b).ok
  <2>1. \E l : HeaderError(b, 5) = "none" /\ ChecksumMatches(b, l)
    BY <1>1, <1>2, Zenon DEF BufferToIsolatedPublicKey
  <2> QED
    BY <2>1, FittingIsWhole
<1>3. CASE BufferToVotingPublicKey(b).ok
  <2>1. \E l : HeaderError(b, 4) = "none" /\ ChecksumMatches(b, l)
    BY <1>1, <1>3, Zenon DEF BufferToVotingPublicKey
  <2> QED
    BY <2>1, FittingIsWhole
<1>4. CASE BufferToVotingPrivateKey(b).ok
  <2>1. \E l : HeaderError(b, 4) = "none" /\ ChecksumMatches(b, l)
    BY <1>1, <1>4, Zenon DEF BufferToVotingPrivateKey
  <2> QED
    BY <2>1, FittingIsWhole
<1> QED
  BY <1>2, <1>3, <1>4

-----------------------------------------------------------------------------
(* Key pairs are made of numbers. *)

(* Quotient and remainder. *)
LEMMA DivisionIs ==
  ASSUME NEW x \in Nat, NEW m \in Nat \ {0}
  PROVE  /\ x \div m \in Nat /\ x % m \in Nat /\ x % m < m
         /\ x = m * (x \div m) + (x % m)
OBVIOUS

(* Products of numbers. *)
LEMMA Products ==
  ASSUME NEW a \in Nat, NEW b \in Nat
  PROVE  a * b \in Nat /\ (a # 0 /\ b # 0 => a * b # 0)
OBVIOUS

(* What MulMod computes. *)
LEMMA MulModIs ==
  ASSUME NEW a \in Nat, NEW b \in Nat, NEW m \in Nat \ {0}
  PROVE  MulMod(a, b, m) \in Nat /\ \E j \in Int : MulMod(a, b, m) = a * b - m * j
<1> DEFINE q == b \div 1024
           r == b % 1024
           x == a * q
           u == x % m
           y == u * 1024 + a * r
<1>1. q \in Nat /\ r \in Nat /\ b = 1024 * q + r
  BY DivisionIs
<1>2. MulMod(a, b, m) = y % m
  BY DEF MulMod
<1> HIDE DEF q, r
<1>3. x \in Nat /\ a * r \in Nat
  BY <1>1, Products
<1>4. a * b = x * 1024 + a * r
  BY <1>1
<1> HIDE DEF x
<1>5. u \in Nat /\ x \div m \in Nat /\ x = m * (x \div m) + u
  BY <1>3, DivisionIs
<1> HIDE DEF u
<1>6. y \in Nat
  BY <1>3, <1>5
<1>7. a * b = y + m * (1024 * (x \div m))
  <2> DEFINE v == x \div m
  <2>1. x = m * v + u /\ v \in Nat
    BY <1>5
  <2> HIDE DEF v
  <2>2. x * 1024 = m * (1024 * v) + u * 1024
    BY <2>1, <1>5
  <2> QED
    BY <1>3, <1>4, <1>5, <2>1, <2>2 DEF v
<1> HIDE DEF y
<1>8. y % m \in Nat /\ y \div m \in Nat /\ y = m * (y \div m) + (y % m)
  BY <1>6, DivisionIs
<1> DEFINE j == (y \div m) + 1024 * (x \div m)
<1>9. j \in Int /\ y % m = a * b - m * j
  BY <1>5, <1>7, <1>8
<1> HIDE DEF j
<1> QED
  BY <1>2, <1>8, <1>9

(* The loop of modPow.                                                     *)
PowerStates == Nat \X Nat \X Nat

PowerStep(s, mod) ==
  <<IF s[3] % 2 = 1 THEN MulMod(s[1], s[2], mod) ELSE s[1], MulMod(s[2], s[2], mod), s[3] \div 2>>

IsPowerLoop(f, mod) ==
  f = [s \in PowerStates |-> IF s[3] = 0 THEN s[1] ELSE f[PowerStep(s, mod)]]

(* A round of the loop leaves numbers, and a smaller exponent.             *)
LEMMA PowerStepIs ==
  ASSUME NEW mod \in Nat \ {0}, NEW s \in PowerStates, s[3] # 0
  PROVE  /\ PowerStep(s, mod) \in PowerStates
         /\ PowerStep(s, mod)[3] \in Nat /\ PowerStep(s, mod)[3] < s[3]
         /\ PowerStep(s, mod)[1] \in {s[1], MulMod(s[1], s[2], mod)}
         /\ PowerStep(s, mod)[2] = MulMod(s[2], s[2], mod)
<1>1. s[1] \in Nat /\ s[2] \in Nat /\ s[3] \in Nat
  BY DEF PowerStates
<1>2. MulMod(s[1], s[2], mod) \in Nat /\ MulMod(s[2], s[2], mod) \in Nat
  BY <1>1, MulModIs
<1>3. s[3] \div 2 \in Nat /\ s[3] \div 2 < s[3]
  BY <1>1
<1> QED
  BY <1>1, <1>2, <1>3 DEF PowerStep, PowerStates

(* The loop ends for every exponent, so there is what it computes.         *)
LEMMA PowerLoopExists ==
  ASSUME NEW mod \in Nat \ {0}
  PROVE  \E f : IsPowerLoop(f, mod)
<1> DEFINE X == PowerStates
           rank == [s \in X |-> s[3]]
           D == [s \in X |-> [g \in [X -> Nat] |-> IF s[3] = 0 THEN s[1] ELSE g[PowerStep(s, mod)]]]
<1>1. ASSUME NEW s \in X, NEW g \in [X -> Nat]
      PROVE  D[s][g] = IF s[3] = 0 THEN s[1] ELSE g[PowerStep(s, mod)]
  BY DEF D
<1>2. ASSUME NEW s \in X PROVE s[1] \in Nat /\ s[3] \in Nat
  BY DEF PowerStates
<1>3. ASSUME NEW s \in X, NEW g \in [X -> Nat] PROVE D[s][g] \in Nat
  <2>1. s[3] # 0 => PowerStep(s, mod) \in X
    BY PowerStepIs
  <2> HIDE DEF D, X
  <2> QED
    BY <1>1, <1>2, <2>1
<1>4. D \in [X -> [[X -> Nat] -> Nat]]
  <2>1. \A s \in X : D[s] = [g \in [X -> Nat] |-> D[s][g]]
    OBVIOUS
  <2>2. D = [s \in X |-> D[s]]
    OBVIOUS
  <2> HIDE DEF D, X
  <2> QED
    BY <1>3, <2>1, <2>2
<1>5. ASSUME NEW g \in [X -> Nat], NEW h \in [X -> Nat], NEW s \in X,
             \A y \in X : rank[y] < rank[s] => g[y] = h[y]
      PROVE  D[s][g] = D[s][h]
  <2>1. s[3] # 0 => g[PowerStep(s, mod)] = h[PowerStep(s, mod)]
    BY <1>5, PowerStepIs
  <2> HIDE DEF D, X
  <2> QED
    BY <1>1, <2>1
<1>6. PICK f \in [X -> Nat] : \A s \in X : f[s] = D[s][f]
  <2>1. rank \in [X -> Nat]
    BY <1>2
  <2> HIDE DEF X, rank, D
  <2>2. IsRecursion(D, X, Nat, rank)
    BY <1>4, <1>5, <2>1 DEF IsRecursion
  <2> QED
    BY <2>2, Recursion
<1>7. \A s \in X : f[s] = IF s[3] = 0 THEN s[1] ELSE f[PowerStep(s, mod)]
  BY <1>1, <1>6
<1>8. f = [s \in X |-> f[s]]
  BY <1>6
<1> HIDE DEF D
<1>9. IsPowerLoop(f, mod)
  BY <1>7, <1>8, Zenon DEF IsPowerLoop
<1> QED
  BY <1>9

(* ModPow starts the loop.                                                 *)
LEMMA PowerByDefinition ==
  ASSUME NEW base, NEW exp, NEW mod \in Nat \ {0, 1}
  PROVE  \E f : IsPowerLoop(f, mod) /\ ModPow(base, exp, mod) = f[<<1, base % mod, exp>>]
<1> DEFINE F == CHOOSE f : IsPowerLoop(f, mod)
<1>1. ModPow(base, exp, mod) = IF mod = 1 THEN 0 ELSE F[<<1, base % mod, exp>>]
  BY Zenon DEF ModPow, IsPowerLoop, PowerStates, PowerStep
<1>2. \E f : IsPowerLoop(f, mod)
  BY PowerLoopExists
<1>3. IsPowerLoop(F, mod)
  BY <1>2, Zenon
<1> QED
  BY <1>1, <1>3

-----------------------------------------------------------------------------
(* The loop of gcd. *)
IsGcdLoop(f) ==
  f = [s \in Nat \X Nat |-> IF s[2] = 0 THEN s[1] ELSE f[<<s[2], s[1] % s[2]>>]]

(* The second number decreases, so the loop ends.                          *)
LEMMA GcdLoopExists == \E f : IsGcdLoop(f)
<1> DEFINE X == Nat \X Nat
           rank == [s \in X |-> s[2]]
           D == [s \in X |-> [g \in [X -> Nat] |-> IF s[2] = 0 THEN s[1] ELSE g[<<s[2], s[1] % s[2]>>]]]
<1>1. ASSUME NEW s \in X, NEW g \in [X -> Nat]
      PROVE  D[s][g] = IF s[2] = 0 THEN s[1] ELSE g[<<s[2], s[1] % s[2]>>]
  BY DEF D
<1>2. ASSUME NEW s \in X
      PROVE  /\ s[1] \in Nat /\ s[2] \in Nat
             /\ s[2] # 0 => /\ <<s[2], s[1] % s[2]>> \in X
                            /\ rank[<<s[2], s[1] % s[2]>>] < rank[s]
  <2>1. s[1] \in Nat /\ s[2] \in Nat
    OBVIOUS
  <2>2. s[2] # 0 => s[1] % s[2] \in Nat /\ s[1] % s[2] < s[2]
    BY <2>1, DivisionIs
  <2> QED
    BY <2>1, <2>2
<1>3. ASSUME NEW s \in X, NEW g \in [X -> Nat] PROVE D[s][g] \in Nat
  <2> HIDE DEF D, X
  <2> QED
    BY <1>1, <1>2
<1>4. D \in [X -> [[X -> Nat] -> Nat]]
  <2>1. \A s \in X : D[s] = [g \in [X -> Nat] |-> D[s][g]]
    OBVIOUS
  <2>2. D = [s \in X |-> D[s]]
    OBVIOUS
  <2> HIDE DEF D, X
  <2> QED
    BY <1>3, <2>1, <2>2
<1>5. ASSUME NEW g \in [X -> Nat], NEW h \in [X -> Nat], NEW s \in X,
             \A y \in X : rank[y] < rank[s] => g[y] = h[y]
      PROVE  D[s][g] = D[s][h]
  <2> HIDE DEF D, X, rank
  <2>1. s[2] # 0 => g[<<s[2], s[1] % s[2]>>] = h[<<s[2], s[1] % s[2]>>]
    BY <1>2, <1>5
  <2> QED
    BY <1>1, <2>1
<1>6. PICK f \in [X -> Nat] : \A s \in X : f[s] = D[s][f]
  <2>1. rank \in [X -> Nat]
    BY <1>2
  <2> HIDE DEF X, rank, D
  <2>2. IsRecursion(D, X, Nat, rank)
    BY <1>4, <1>5, <2>1 DEF IsRecursion
  <2> QED
    BY <2>2, Recursion
<1>7. \A s \in X : f[s] = IF s[2] = 0 THEN s[1] ELSE f[<<s[2], s[1] % s[2]>>]
  BY <1>1, <1>6
<1>8. f = [s \in X |-> f[s]]
  BY <1>6
<1> HIDE DEF D
<1>9. IsGcdLoop(f)
  BY <1>7, <1>8, Zenon DEF IsGcdLoop
<1> QED
  BY <1>9

(* Gcd starts the loop.                                                    *)
LEMMA GcdByDefinition ==
  \E f : IsGcdLoop(f) /\ \A a, b : Gcd(a, b) = f[<<a, b>>]
<1> DEFINE F == CHOOSE f : IsGcdLoop(f)
<1>1. \A a, b : Gcd(a, b) = F[<<a, b>>]
  BY Zenon DEF Gcd, IsGcdLoop
<1>2. IsGcdLoop(F)
  BY GcdLoopExists, Zenon
<1> QED
  BY <1>1, <1>2, Zenon

(* A common divisor is a number, and not zero. *)
LEMMA GcdIs ==
  ASSUME NEW a \in Nat \ {0}, NEW b \in Nat
  PROVE  Gcd(a, b) \in Nat \ {0}
<1>1. PICK f : IsGcdLoop(f) /\ \A x, y : Gcd(x, y) = f[<<x, y>>]
  BY GcdByDefinition
<1> DEFINE P == {y \in Nat : \A x \in Nat \ {0} : f[<<x, y>>] \in Nat \ {0}}
<1>2. ASSUME NEW y \in Nat, \A k \in 0 .. y - 1 : k \in P PROVE y \in P
  <2> SUFFICES ASSUME NEW x \in Nat \ {0} PROVE f[<<x, y>>] \in Nat \ {0}
    OBVIOUS
  <2>1. f[<<x, y>>] = IF y = 0 THEN x ELSE f[<<y, x % y>>]
    <3> DEFINE s == <<x, y>>
    <3>1. s \in Nat \X Nat /\ s[1] = x /\ s[2] = y
      OBVIOUS
    <3> HIDE DEF s
    <3>2. f[s] = IF s[2] = 0 THEN s[1] ELSE f[<<s[2], s[1] % s[2]>>]
      BY <1>1, <3>1, Zenon DEF IsGcdLoop
    <3> QED
      BY <3>1, <3>2 DEF s
  <2>2. y # 0 => x % y \in 0 .. y - 1
    BY DivisionIs
  <2> QED
    BY <1>2, <2>1, <2>2
<1> HIDE DEF P
<1>3. \A y \in Nat : y \in P
  BY <1>2, StrongInduction
<1> QED
  BY <1>1, <1>3 DEF P

-----------------------------------------------------------------------------
(* The loop of modInverse. *)
InverseStates == Nat \X Nat \X Int \X Int

InverseStep(s) == <<s[2], s[1] % s[2], s[4] - (s[1] \div s[2]) * s[3], s[3]>>

Inverted(s, m) == IF s[4] < 0 THEN s[4] + m ELSE s[4]

IsInverseLoop(f, m) ==
  f = [s \in InverseStates |->
         IF s[1] <= 1 THEN Inverted(s, m) ELSE IF s[2] = 0 THEN DivisionByZero ELSE f[InverseStep(s)]]

(* A round of the loop leaves numbers, and a smaller second one.           *)
LEMMA InverseStepIs ==
  ASSUME NEW s \in InverseStates, s[2] # 0
  PROVE  /\ InverseStep(s) \in InverseStates
         /\ InverseStep(s)[1] = s[2] /\ InverseStep(s)[2] = s[1] % s[2]
         /\ InverseStep(s)[3] = s[4] - (s[1] \div s[2]) * s[3] /\ InverseStep(s)[4] = s[3]
         /\ InverseStep(s)[2] \in Nat /\ InverseStep(s)[2] < s[2]
<1>1. s[1] \in Nat /\ s[2] \in Nat \ {0} /\ s[3] \in Int /\ s[4] \in Int
  BY DEF InverseStates
<1>2. s[1] % s[2] \in Nat /\ s[1] % s[2] < s[2] /\ s[1] \div s[2] \in Nat
  BY <1>1, DivisionIs
<1>3. s[4] - (s[1] \div s[2]) * s[3] \in Int
  BY <1>1, <1>2
<1> QED
  BY <1>1, <1>2, <1>3 DEF InverseStep, InverseStates

(* The second number decreases, so the loop ends.                          *)
LEMMA InverseLoopExists ==
  ASSUME NEW m \in Nat
  PROVE  \E f : IsInverseLoop(f, m)
<1> DEFINE X == InverseStates
           rank == [s \in X |-> s[2]]
           D == [s \in X |-> [g \in [X -> Int] |->
                   IF s[1] <= 1 THEN Inverted(s, m)
                   ELSE IF s[2] = 0 THEN DivisionByZero ELSE g[InverseStep(s)]]]
<1>1. ASSUME NEW s \in X, NEW g \in [X -> Int]
      PROVE  D[s][g] = IF s[1] <= 1 THEN Inverted(s, m)
                       ELSE IF s[2] = 0 THEN DivisionByZero ELSE g[InverseStep(s)]
  BY DEF D
<1>2. ASSUME NEW s \in X PROVE s[2] \in Nat /\ Inverted(s, m) \in Int
  BY DEF InverseStates, Inverted
<1>3. ASSUME NEW s \in X, NEW g \in [X -> Int] PROVE D[s][g] \in Int
  <2>1. s[2] # 0 => InverseStep(s) \in X
    BY InverseStepIs
  <2> HIDE DEF D, X
  <2> QED
    BY <1>1, <1>2, <2>1 DEF DivisionByZero
<1>4. D \in [X -> [[X -> Int] -> Int]]
  <2>1. \A s \in X : D[s] = [g \in [X -> Int] |-> D[s][g]]
    OBVIOUS
  <2>2. D = [s \in X |-> D[s]]
    OBVIOUS
  <2> HIDE DEF D, X
  <2> QED
    BY <1>3, <2>1, <2>2
<1>5. ASSUME NEW g \in [X -> Int], NEW h \in [X -> Int], NEW s \in X,
             \A y \in X : rank[y] < rank[s] => g[y] = h[y]
      PROVE  D[s][g] = D[s][h]
  <2>1. s[2] # 0 => g[InverseStep(s)] = h[InverseStep(s)]
    BY <1>5, InverseStepIs
  <2> HIDE DEF D, X
  <2> QED
    BY <1>1, <2>1
<1>6. PICK f \in [X -> Int] : \A s \in X : f[s] = D[s][f]
  <2>1. rank \in [X -> Nat]
    BY <1>2
  <2> HIDE DEF X, rank, D
  <2>2. Int # {}
    BY 0 \in Int
  <2>3. \A g, h \in [X -> Int], s \in X :
          (\A y \in X : rank[y] < rank[s] => g[y] = h[y]) => D[s][g] = D[s][h]
    BY <1>5
  <2>4. IsRecursion(D, X, Int, rank)
    BY <1>4, <2>1, <2>2, <2>3, Zenon DEF IsRecursion
  <2> QED
    BY <2>4, Recursion
<1>7. \A s \in X : f[s] = IF s[1] <= 1 THEN Inverted(s, m)
                           ELSE IF s[2] = 0 THEN DivisionByZero ELSE f[InverseStep(s)]
  BY <1>1, <1>6
<1>8. f = [s \in X |-> f[s]]
  BY <1>6
<1> HIDE DEF D
<1>9. IsInverseLoop(f, m)
  BY <1>7, <1>8, Zenon DEF IsInverseLoop
<1> QED
  BY <1>9

(* ModInverse starts the loop.                                             *)
LEMMA InverseByDefinition ==
  ASSUME NEW a, NEW m \in Nat
  PROVE  \E f : /\ IsInverseLoop(f, m)
                /\ ModInverse(a, m) = IF m = 1 THEN 0 ELSE f[<<a, m, 0, 1>>]
<1> DEFINE F == CHOOSE f : IsInverseLoop(f, m)
<1>1. ModInverse(a, m) = IF m = 1 THEN 0 ELSE F[<<a, m, 0, 1>>]
  BY Zenon DEF ModInverse, IsInverseLoop, InverseStates, InverseStep, Inverted
<1>2. \E f : IsInverseLoop(f, m)
  BY InverseLoopExists
<1>3. IsInverseLoop(F, m)
  BY <1>2, Zenon
<1> QED
  BY <1>1, <1>3

(* The coefficients of the loop have different signs and stay in bounds.   *)
Balanced(s, m) ==
  /\ -m <= s[4]
  /\ \/ s[3] <= 0 /\ s[4] >= 0 /\ s[2] * s[4] - s[1] * s[3] = m
     \/ s[3] >= 0 /\ s[4] <= 0 /\ s[1] * s[3] - s[2] * s[4] = m

(* A round keeps them so.                                                  *)
LEMMA BalanceKept ==
  ASSUME NEW m \in Nat, NEW s \in InverseStates, Balanced(s, m), s[1] > 1, s[2] # 0
  PROVE  Balanced(InverseStep(s), m)
<1> DEFINE a == s[1]
           b == s[2]
           x == s[3]
           y == s[4]
           q == s[1] \div s[2]
           r == s[1] % s[2]
           t == InverseStep(s)
<1>1. a \in Nat /\ b \in Nat \ {0} /\ x \in Int /\ y \in Int
  BY DEF InverseStates
<1>2. q \in Nat /\ r \in Nat /\ a = b * q + r
  BY <1>1, DivisionIs
<1>3. t[1] = b /\ t[2] = r /\ t[3] = y - q * x /\ t[4] = x
  BY InverseStepIs
<1>4. \/ x <= 0 /\ y >= 0 /\ b * y - a * x = m
      \/ x >= 0 /\ y <= 0 /\ a * x - b * y = m
  BY DEF Balanced
<1> HIDE DEF a, b, x, y, q, r, t
<1>5. b * (y - q * x) - r * x = b * y - a * x
  BY <1>1, <1>2
<1>6. CASE x <= 0 /\ y >= 0 /\ b * y - a * x = m
  <2>1. q * x <= 0 /\ b * y >= 0 /\ a * x <= x
    <3>1. q * (-x) \in Nat /\ b * y \in Nat /\ (a - 1) * (-x) \in Nat
      BY <1>1, <1>2, <1>6, Products, s[1] > 1 DEF a
    <3> QED
      BY <1>1, <1>2, <3>1
  <2>2. -m <= x
    BY <1>1, <1>6, <2>1
  <2>3. y - q * x >= 0
    BY <1>1, <1>2, <1>6, <2>1
  <2> QED
    BY <1>1, <1>3, <1>5, <1>6, <2>2, <2>3 DEF Balanced, t
<1>7. CASE x >= 0 /\ y <= 0 /\ a * x - b * y = m
  <2>1. q * x \in Nat
    BY <1>2, <1>7, <1>1, Products
  <2>2. y - q * x <= 0 /\ -m <= x
    BY <1>1, <1>7, <2>1
  <2>3. r * x - b * (y - q * x) = m
    BY <1>1, <1>2, <1>5, <1>7
  <2> QED
    BY <1>1, <1>3, <1>7, <2>2, <2>3 DEF Balanced, t
<1> QED
  BY <1>4, <1>6, <1>7

(* An inverse is a number, unless the loop has divided by zero. *)
LEMMA InverseIs ==
  ASSUME NEW a \in Nat, NEW m \in Nat
  PROVE  ModInverse(a, m) \in Nat \union {DivisionByZero}
<1>1. PICK f : IsInverseLoop(f, m) /\ ModInverse(a, m) = IF m = 1 THEN 0 ELSE f[<<a, m, 0, 1>>]
  BY InverseByDefinition
<1> DEFINE Good == Nat \union {DivisionByZero}
           P == {k \in Nat : \A s \in InverseStates : s[2] = k /\ Balanced(s, m) => f[s] \in Good}
<1>2. ASSUME NEW k \in Nat, \A l \in 0 .. k - 1 : l \in P PROVE k \in P
  <2> SUFFICES ASSUME NEW s \in InverseStates, s[2] = k, Balanced(s, m) PROVE f[s] \in Good
    OBVIOUS
  <2>1. f[s] = IF s[1] <= 1 THEN Inverted(s, m)
               ELSE IF s[2] = 0 THEN DivisionByZero ELSE f[InverseStep(s)]
    BY <1>1, Zenon DEF IsInverseLoop
  <2>2. s[1] \in Nat /\ s[2] \in Nat /\ s[4] \in Int /\ -m <= s[4]
    BY DEF InverseStates, Balanced
  <2>3. Inverted(s, m) \in Nat
    BY <2>2 DEF Inverted
  <2>4. ASSUME ~(s[1] <= 1), s[2] # 0 PROVE f[InverseStep(s)] \in Good
    <3> DEFINE t == InverseStep(s)
    <3>1. t \in InverseStates /\ t[2] \in 0 .. k - 1 /\ Balanced(t, m)
      BY <2>2, <2>4, InverseStepIs, BalanceKept
    <3> HIDE DEF t, Good
    <3>2. f[t] \in Good
      BY <1>2, <3>1
    <3> QED
      BY <3>2 DEF t
  <2> QED
    BY <2>1, <2>3, <2>4
<1> HIDE DEF P
<1>3. \A k \in Nat : k \in P
  BY <1>2, StrongInduction
<1> DEFINE s == <<a, m, 0, 1>>
<1>4. s \in InverseStates /\ s[2] = m /\ Balanced(s, m)
  BY DEF InverseStates, Balanced
<1> HIDE DEF s
<1>5. f[s] \in Good
  BY <1>3, <1>4 DEF P
<1> QED
  BY <1>1, <1>5 DEF s

-----------------------------------------------------------------------------
(* PowerOfTwo is what its recursion says, and its values are numbers. *)
IsDoubling(f) == f = [k \in Nat |-> IF k = 0 THEN 1 ELSE 2 * f[k - 1]]

(* There is a function that doubles.                                       *)
LEMMA DoublingExists == \E f : IsDoubling(f)
<1> DEFINE V == Nat
           rank == [k \in Nat |-> k]
           D == [k \in Nat |-> [g \in [Nat -> V] |-> IF k = 0 THEN 1 ELSE 2 * g[k - 1]]]
<1>1. ASSUME NEW k \in Nat, NEW g \in [Nat -> V]
      PROVE  D[k][g] = IF k = 0 THEN 1 ELSE 2 * g[k - 1]
  BY DEF D
<1>2. ASSUME NEW k \in Nat, NEW g \in [Nat -> V] PROVE D[k][g] \in V
  <2> HIDE DEF D
  <2> QED
    BY <1>1
<1>3. D \in [Nat -> [[Nat -> V] -> V]]
  <2>1. \A k \in Nat : D[k] = [g \in [Nat -> V] |-> D[k][g]]
    OBVIOUS
  <2>2. D = [k \in Nat |-> D[k]]
    OBVIOUS
  <2> HIDE DEF D
  <2> QED
    BY <1>2, <2>1, <2>2
<1>4. ASSUME NEW g \in [Nat -> V], NEW h \in [Nat -> V], NEW k \in Nat,
             \A y \in Nat : rank[y] < rank[k] => g[y] = h[y]
      PROVE  D[k][g] = D[k][h]
  <2>1. k # 0 => g[k - 1] = h[k - 1]
    BY <1>4
  <2> HIDE DEF D
  <2> QED
    BY <1>1, <2>1
<1>5. PICK f \in [Nat -> V] : \A k \in Nat : f[k] = D[k][f]
  <2>1. rank \in [Nat -> Nat] /\ V # {}
    OBVIOUS
  <2> HIDE DEF V, rank, D
  <2>2. IsRecursion(D, Nat, V, rank)
    BY <1>3, <1>4, <2>1 DEF IsRecursion
  <2> QED
    BY <2>2, Recursion
<1>6. \A k \in Nat : f[k] = IF k = 0 THEN 1 ELSE 2 * f[k - 1]
  BY <1>1, <1>5
<1>7. f = [k \in Nat |-> f[k]]
  BY <1>5
<1> HIDE DEF D
<1>8. IsDoubling(f)
  BY <1>6, <1>7, Zenon DEF IsDoubling
<1> QED
  BY <1>8

(* The powers of two are numbers, and not zero.                            *)
LEMMA PowersOfTwo == \A k \in Nat : PowerOfTwo[k] \in Nat \ {0}
<1>1. IsDoubling(PowerOfTwo)
  <2>1. PowerOfTwo = CHOOSE f : IsDoubling(f)
    BY Zenon DEF PowerOfTwo, IsDoubling
  <2> QED
    BY <2>1, DoublingExists, Zenon
<1>2. \A k \in Nat : PowerOfTwo[k] = IF k = 0 THEN 1 ELSE 2 * PowerOfTwo[k - 1]
  BY <1>1, Zenon DEF IsDoubling
<1> DEFINE P == {k \in Nat : PowerOfTwo[k] \in Nat \ {0}}
<1>3. 0 \in P
  BY <1>2
<1>4. ASSUME NEW k \in Nat, k \in P PROVE k + 1 \in P
  <2>1. PowerOfTwo[k + 1] = 2 * PowerOfTwo[k]
    BY <1>2
  <2> QED
    BY <1>4, <2>1
<1> HIDE DEF P
<1>5. \A k \in Nat : k \in P
  BY <1>3, <1>4, NumbersInduction
<1> QED
  BY <1>5 DEF P

(* The primality test accepts nothing below 2.                             *)
LEMMA AcceptedIsTwoOrMore ==
  ASSUME NEW c \in Nat, Accepted(c)
  PROVE  c \in Nat \ {0, 1}
<1>1. MillerRabinTest(c, TestRounds, {})
  BY DEF Accepted
<1>2. c <= 1 => ~MillerRabinTest(c, TestRounds, {})
  BY DEF MillerRabinTest
<1> QED
  BY <1>1, <1>2

(* Does m divide the difference of a and b?                                *)
Congruent(a, b, m) == \E j \in Int : a = b + m * j

(* Congruence is an equivalence.                                           *)
LEMMA CongruentToItself ==
  ASSUME NEW a \in Int, NEW m \in Int
  PROVE  Congruent(a, a, m)
<1>1. a = a + m * 0
  OBVIOUS
<1> QED
  BY <1>1 DEF Congruent

(* It goes in both directions.                                             *)
LEMMA CongruentBack ==
  ASSUME NEW a \in Int, NEW b \in Int, NEW m \in Int, Congruent(a, b, m)
  PROVE  Congruent(b, a, m)
<1>1. PICK j \in Int : a = b + m * j
  BY DEF Congruent
<1>2. b = a + m * (-j) /\ -j \in Int
  BY <1>1
<1> QED
  BY <1>2 DEF Congruent

(* It goes from one number over another to a third.                        *)
LEMMA CongruentOver ==
  ASSUME NEW a \in Int, NEW b \in Int, NEW c \in Int, NEW m \in Int,
         Congruent(a, b, m), Congruent(b, c, m)
  PROVE  Congruent(a, c, m)
<1>1. PICK j \in Int : a = b + m * j
  BY DEF Congruent
<1>2. PICK k \in Int : b = c + m * k
  BY DEF Congruent
<1>3. a = c + m * (k + j) /\ k + j \in Int
  BY <1>1, <1>2
<1> QED
  BY <1>3 DEF Congruent

(* It goes with sums and products.                                         *)
LEMMA CongruentSums ==
  ASSUME NEW a \in Int, NEW b \in Int, NEW c \in Int, NEW d \in Int, NEW m \in Int,
         Congruent(a, b, m), Congruent(c, d, m)
  PROVE  Congruent(a + c, b + d, m)
<1>1. PICK j \in Int : a = b + m * j
  BY DEF Congruent
<1>2. PICK k \in Int : c = d + m * k
  BY DEF Congruent
<1>3. a + c = (b + d) + m * (j + k) /\ j + k \in Int
  BY <1>1, <1>2
<1> QED
  BY <1>3 DEF Congruent

(* And with products.                                                      *)
LEMMA CongruentProducts ==
  ASSUME NEW a \in Int, NEW b \in Int, NEW c \in Int, NEW d \in Int, NEW m \in Int,
         Congruent(a, b, m), Congruent(c, d, m)
  PROVE  Congruent(a * c, b * d, m)
<1>1. PICK j \in Int : a = b + m * j
  BY DEF Congruent
<1>2. PICK k \in Int : c = d + m * k
  BY DEF Congruent
<1> DEFINE l == b * k + j * d + m * (j * k)
<1>3. a * c = b * d + m * l /\ l \in Int
  <2>1. (b + m * j) * (d + m * k) = b * d + m * (b * k + j * d + m * (j * k))
    OBVIOUS
  <2> QED
    BY <1>1, <1>2, <2>1
<1> HIDE DEF l
<1> QED
  BY <1>3 DEF Congruent

(* A remainder is congruent to what was divided.                           *)
LEMMA CongruentRemainder ==
  ASSUME NEW a \in Nat, NEW m \in Nat \ {0}
  PROVE  Congruent(a % m, a, m) /\ a % m \in 0 .. m - 1
<1>1. /\ a \div m \in Nat /\ a % m \in Nat /\ a % m < m
      /\ a = m * (a \div m) + (a % m)
  BY DivisionIs
<1> DEFINE q == a \div m
           r == a % m
<1> HIDE DEF q, r
<1>2. q \in Nat /\ r \in Nat /\ r < m /\ a = m * q + r
  BY <1>1 DEF q, r
<1>3. r = a + m * (-q) /\ -q \in Int
  BY <1>2
<1>4. Congruent(r, a, m)
  BY <1>3 DEF Congruent
<1> QED
  BY <1>2, <1>4 DEF r

(* Two remainders that are congruent are equal.                            *)
LEMMA CongruentRemainders ==
  ASSUME NEW m \in Nat \ {0}, NEW a \in 0 .. m - 1, NEW b \in 0 .. m - 1, Congruent(a, b, m)
  PROVE  a = b
<1>1. PICK j \in Int : a = b + m * j
  BY DEF Congruent
<1>2. CASE j = 0
  BY <1>1, <1>2
<1>3. CASE j > 0
  <2>1. m * j = m + m * (j - 1) /\ m * (j - 1) \in Nat
    BY <1>3, Products
  <2> QED
    BY <1>1, <2>1
<1>4. CASE j < 0
  <2>1. m * j = -m - m * (-j - 1) /\ m * (-j - 1) \in Nat
    BY <1>4, Products
  <2> QED
    BY <1>1, <2>1
<1> QED
  BY <1>2, <1>3, <1>4

(* What is congruent for a multiple of m is congruent for m.               *)
LEMMA CongruentPart ==
  ASSUME NEW a \in Int, NEW b \in Int, NEW m \in Int, NEW k \in Int, Congruent(a, b, m * k)
  PROVE  Congruent(a, b, m)
<1>1. PICK j \in Int : a = b + (m * k) * j
  BY DEF Congruent
<1>2. (m * k) * j = m * (k * j) /\ k * j \in Int
  OBVIOUS
<1> QED
  BY <1>1, <1>2 DEF Congruent

-----------------------------------------------------------------------------
(* The powers of a number, as a function of the exponent. *)
IsPowers(f, b) == f = [k \in Nat |-> IF k = 0 THEN 1 ELSE b * f[k - 1]]

PowersOf(b) == CHOOSE f : IsPowers(f, b)

(* There are powers.                                                       *)
LEMMA PowersExist == ASSUME NEW b \in Int PROVE \E f \in [Nat -> Int] : IsPowers(f, b)
<1> DEFINE V == Int
           rank == [k \in Nat |-> k]
           D == [k \in Nat |-> [g \in [Nat -> V] |-> IF k = 0 THEN 1 ELSE b * g[k - 1]]]
<1>1. ASSUME NEW k \in Nat, NEW g \in [Nat -> V]
      PROVE  D[k][g] = IF k = 0 THEN 1 ELSE b * g[k - 1]
  BY DEF D
<1>2. ASSUME NEW k \in Nat, NEW g \in [Nat -> V] PROVE D[k][g] \in V
  <2> HIDE DEF D
  <2>1. k # 0 => g[k - 1] \in Int
    OBVIOUS
  <2>2. k # 0 => b * g[k - 1] \in Int
    BY <2>1
  <2> QED
    BY <1>1, <2>2
<1>3. D \in [Nat -> [[Nat -> V] -> V]]
  <2>1. \A k \in Nat : D[k] = [g \in [Nat -> V] |-> D[k][g]]
    OBVIOUS
  <2>2. D = [k \in Nat |-> D[k]]
    OBVIOUS
  <2> HIDE DEF D
  <2> QED
    BY <1>2, <2>1, <2>2
<1>4. ASSUME NEW g \in [Nat -> V], NEW h \in [Nat -> V], NEW k \in Nat,
             \A y \in Nat : rank[y] < rank[k] => g[y] = h[y]
      PROVE  D[k][g] = D[k][h]
  <2>1. k # 0 => g[k - 1] = h[k - 1]
    BY <1>4
  <2> HIDE DEF D
  <2> QED
    BY <1>1, <2>1
<1>5. PICK f \in [Nat -> V] : \A k \in Nat : f[k] = D[k][f]
  <2>1. rank \in [Nat -> Nat] /\ V # {}
    OBVIOUS
  <2> HIDE DEF V, rank, D
  <2>2. IsRecursion(D, Nat, V, rank)
    BY <1>3, <1>4, <2>1 DEF IsRecursion
  <2> QED
    BY <2>2, Recursion
<1>6. \A k \in Nat : f[k] = IF k = 0 THEN 1 ELSE b * f[k - 1]
  BY <1>1, <1>5
<1>7. f = [k \in Nat |-> f[k]]
  BY <1>5
<1> HIDE DEF D
<1>8. IsPowers(f, b)
  BY <1>6, <1>7, Zenon DEF IsPowers
<1> QED
  BY <1>5, <1>8

(* How powers begin and go on.                                             *)
LEMMA PowersGoOn ==
  ASSUME NEW b \in Int
  PROVE  /\ PowersOf(b)[0] = 1
         /\ \A k \in Nat : PowersOf(b)[k + 1] = b * PowersOf(b)[k]
<1>1. IsPowers(PowersOf(b), b)
  BY PowersExist, Zenon DEF PowersOf
<1>2. \A k \in Nat : PowersOf(b)[k] = IF k = 0 THEN 1 ELSE b * PowersOf(b)[k - 1]
  BY <1>1, Zenon DEF IsPowers
<1> DEFINE f == PowersOf(b)
<1> HIDE DEF f
<1>3. \A k \in Nat : f[k] = IF k = 0 THEN 1 ELSE b * f[k - 1]
  BY <1>2 DEF f
<1>4. f[0] = 1
  BY <1>3
<1>5. ASSUME NEW k \in Nat PROVE f[k + 1] = b * f[k]
  <2>1. k + 1 \in Nat /\ k + 1 # 0 /\ (k + 1) - 1 = k
    OBVIOUS
  <2> QED
    BY <1>3, <2>1
<1> QED
  BY <1>4, <1>5 DEF f

(* Powers of integers are integers.                                        *)
LEMMA PowersAreIntegers ==
  ASSUME NEW b \in Int
  PROVE  \A k \in Nat : PowersOf(b)[k] \in Int
<1> DEFINE P == {k \in Nat : PowersOf(b)[k] \in Int}
<1>1. 0 \in P
  BY PowersGoOn
<1>2. ASSUME NEW k \in Nat, k \in P PROVE k + 1 \in P
  <2>1. PowersOf(b)[k + 1] = b * PowersOf(b)[k]
    BY PowersGoOn
  <2> QED
    BY <1>2, <2>1
<1> HIDE DEF P
<1>3. \A k \in Nat : k \in P
  BY <1>1, <1>2, NumbersInduction
<1> QED
  BY <1>3 DEF P

(* Powers of numbers are numbers.                                          *)
LEMMA PowersAreNumbers ==
  ASSUME NEW b \in Nat
  PROVE  \A k \in Nat : PowersOf(b)[k] \in Nat
<1> DEFINE P == {k \in Nat : PowersOf(b)[k] \in Nat}
<1>1. 0 \in P
  BY PowersGoOn
<1>2. ASSUME NEW k \in Nat, k \in P PROVE k + 1 \in P
  <2>1. PowersOf(b)[k + 1] = b * PowersOf(b)[k]
    BY PowersGoOn
  <2> QED
    BY <1>2, <2>1, Products
<1> HIDE DEF P
<1>3. \A k \in Nat : k \in P
  BY <1>1, <1>2, NumbersInduction
<1> QED
  BY <1>3 DEF P

(* Exponents are added.                                                    *)
LEMMA PowerOfSum ==
  ASSUME NEW b \in Int, NEW j \in Nat, NEW k \in Nat
  PROVE  PowersOf(b)[j + k] = PowersOf(b)[j] * PowersOf(b)[k]
<1> DEFINE f == PowersOf(b)
<1>1. f[0] = 1 /\ \A l \in Nat : f[l + 1] = b * f[l]
  BY PowersGoOn
<1>2. \A l \in Nat : f[l] \in Int
  BY PowersAreIntegers
<1> HIDE DEF f
<1> SUFFICES f[j + k] = f[j] * f[k]
  BY DEF f
<1> DEFINE P == {l \in Nat : f[j + l] = f[j] * f[l]}
<1>3. 0 \in P
  BY <1>1, <1>2
<1>4. ASSUME NEW l \in Nat, l \in P PROVE l + 1 \in P
  <2>1. f[j + l] = f[j] * f[l] /\ f[j] \in Int /\ f[l] \in Int
    BY <1>2, <1>4
  <2>2. f[(j + l) + 1] = b * f[j + l] /\ f[l + 1] = b * f[l]
    BY <1>1
  <2>3. b * (f[j] * f[l]) = f[j] * (b * f[l])
    BY <2>1
  <2>4. f[j + (l + 1)] = f[j] * f[l + 1]
    BY <2>1, <2>2, <2>3, (j + l) + 1 = j + (l + 1)
  <2> QED
    BY <2>4
<1> HIDE DEF P
<1>5. \A l \in Nat : l \in P
  BY <1>3, <1>4, NumbersInduction
<1> QED
  BY <1>5 DEF P

(* Exponents are multiplied.                                               *)
LEMMA PowerOfPower ==
  ASSUME NEW b \in Int, NEW j \in Nat, NEW k \in Nat
  PROVE  PowersOf(PowersOf(b)[j])[k] = PowersOf(b)[j * k]
<1> DEFINE f == PowersOf(b)
           c == f[j]
           g == PowersOf(c)
<1>1. c \in Int /\ f[0] = 1
  BY PowersAreIntegers, PowersGoOn
<1>2. g[0] = 1 /\ \A l \in Nat : g[l + 1] = c * g[l]
  <2> HIDE DEF c
  <2> QED
    BY <1>1, PowersGoOn
<1>3. \A i, l \in Nat : f[i + l] = f[i] * f[l]
  BY PowerOfSum
<1> SUFFICES g[k] = f[j * k]
  OBVIOUS
<1> HIDE DEF f, g
<1> DEFINE P == {l \in Nat : g[l] = f[j * l]}
<1>4. 0 \in P
  BY <1>1, <1>2
<1>5. ASSUME NEW l \in Nat, l \in P PROVE l + 1 \in P
  <2>1. j * l \in Nat /\ j + j * l = j * (l + 1)
    BY Products
  <2>2. g[l + 1] = c * f[j * l]
    BY <1>2, <1>5
  <2>3. f[j + j * l] = c * f[j * l]
    BY <1>3, <2>1
  <2>4. g[l + 1] = f[j * (l + 1)]
    BY <2>1, <2>2, <2>3
  <2> QED
    BY <2>4
<1> HIDE DEF P
<1>6. \A l \in Nat : l \in P
  BY <1>4, <1>5, NumbersInduction
<1> QED
  BY <1>6 DEF P

(* A power of a product is the product of the powers.                      *)
LEMMA PowerOfProduct ==
  ASSUME NEW a \in Int, NEW b \in Int, NEW k \in Nat
  PROVE  PowersOf(a * b)[k] = PowersOf(a)[k] * PowersOf(b)[k]
<1> DEFINE f == PowersOf(a)
           g == PowersOf(b)
           h == PowersOf(a * b)
<1>1. a * b \in Int
  OBVIOUS
<1>2. f[0] = 1 /\ g[0] = 1 /\ h[0] = 1
  BY <1>1, PowersGoOn
<1>3. \A l \in Nat : f[l + 1] = a * f[l] /\ g[l + 1] = b * g[l] /\ h[l + 1] = (a * b) * h[l]
  BY <1>1, PowersGoOn
<1>4. \A l \in Nat : f[l] \in Int /\ g[l] \in Int
  BY PowersAreIntegers
<1> SUFFICES h[k] = f[k] * g[k]
  OBVIOUS
<1> HIDE DEF f, g, h
<1> DEFINE P == {l \in Nat : h[l] = f[l] * g[l]}
<1>5. 0 \in P
  BY <1>2
<1>6. ASSUME NEW l \in Nat, l \in P PROVE l + 1 \in P
  <2>1. f[l] \in Int /\ g[l] \in Int /\ h[l] = f[l] * g[l]
    BY <1>4, <1>6
  <2>2. (a * b) * (f[l] * g[l]) = (a * f[l]) * (b * g[l])
    BY <2>1
  <2>3. h[l + 1] = f[l + 1] * g[l + 1]
    BY <1>3, <2>1, <2>2
  <2> QED
    BY <2>3
<1> HIDE DEF P
<1>7. \A l \in Nat : l \in P
  BY <1>5, <1>6, NumbersInduction
<1> QED
  BY <1>7 DEF P

(* Powers of congruent numbers are congruent.                              *)
LEMMA CongruentPowers ==
  ASSUME NEW a \in Int, NEW b \in Int, NEW m \in Int, Congruent(a, b, m), NEW k \in Nat
  PROVE  Congruent(PowersOf(a)[k], PowersOf(b)[k], m)
<1> DEFINE f == PowersOf(a)
           g == PowersOf(b)
<1>1. f[0] = 1 /\ g[0] = 1
  BY PowersGoOn
<1>2. \A l \in Nat : f[l + 1] = a * f[l] /\ g[l + 1] = b * g[l]
  BY PowersGoOn
<1>3. \A l \in Nat : f[l] \in Int /\ g[l] \in Int
  BY PowersAreIntegers
<1> SUFFICES Congruent(f[k], g[k], m)
  OBVIOUS
<1> HIDE DEF f, g
<1> DEFINE P == {l \in Nat : Congruent(f[l], g[l], m)}
<1>4. 0 \in P
  <2>1. Congruent(1, 1, m)
    <3> DEFINE one == 1
    <3>1. one \in Int
      OBVIOUS
    <3> HIDE DEF one
    <3>2. Congruent(one, one, m)
      BY <3>1, CongruentToItself
    <3> QED
      BY <3>2 DEF one
  <2> QED
    BY <1>1, <2>1
<1>5. ASSUME NEW l \in Nat, l \in P PROVE l + 1 \in P
  <2>1. f[l] \in Int /\ g[l] \in Int /\ Congruent(f[l], g[l], m)
    BY <1>3, <1>5
  <2>2. Congruent(a * f[l], b * g[l], m)
    BY <2>1, CongruentProducts
  <2> QED
    BY <1>2, <2>2
<1> HIDE DEF P
<1>6. \A l \in Nat : l \in P
  BY <1>4, <1>5, NumbersInduction
<1> QED
  BY <1>6 DEF P

(* The powers of 1.                                                        *)
LEMMA PowersOfOne == \A k \in Nat : PowersOf(1)[k] = 1
<1> DEFINE P == {k \in Nat : PowersOf(1)[k] = 1}
           one == 1
<1>1. PowersOf(one)[0] = 1 /\ \A k \in Nat : PowersOf(one)[k + 1] = one * PowersOf(one)[k]
  <2>1. one \in Int
    OBVIOUS
  <2> HIDE DEF one
  <2> QED
    BY <2>1, PowersGoOn
<1>2. 0 \in P
  BY <1>1
<1>3. ASSUME NEW k \in Nat, k \in P PROVE k + 1 \in P
  BY <1>1, <1>3
<1> HIDE DEF P
<1>4. \A k \in Nat : k \in P
  BY <1>2, <1>3, NumbersInduction
<1> QED
  BY <1>4 DEF P

-----------------------------------------------------------------------------
(* MulMod computes the product, and ModPow the power. *)
LEMMA MulModComputes ==
  ASSUME NEW a \in Nat, NEW b \in Nat, NEW m \in Nat \ {0}
  PROVE  MulMod(a, b, m) \in 0 .. m - 1 /\ Congruent(MulMod(a, b, m), a * b, m)
<1>1. PICK j \in Int : MulMod(a, b, m) = a * b - m * j
  BY MulModIs
<1>2. MulMod(a, b, m) \in Nat
  BY MulModIs
<1>3. MulMod(a, b, m) < m
  <2> DEFINE y == ((a * (b \div 1024)) % m) * 1024 + a * (b % 1024)
  <2>1. MulMod(a, b, m) = y % m
    BY DEF MulMod
  <2>2. y \in Nat
    <3>1. b \div 1024 \in Nat /\ b % 1024 \in Nat
      BY DivisionIs
    <3>2. a * (b \div 1024) \in Nat /\ a * (b % 1024) \in Nat
      BY <3>1, Products
    <3>3. (a * (b \div 1024)) % m \in Nat
      BY <3>2, DivisionIs
    <3> QED
      BY <3>2, <3>3
  <2> HIDE DEF y
  <2> QED
    BY <2>1, <2>2, DivisionIs
<1> DEFINE x == MulMod(a, b, m)
           ab == a * b
<1>4. ab \in Int /\ x = ab - m * j /\ x \in Nat /\ x < m
  BY <1>1, <1>2, <1>3
<1> HIDE DEF x, ab
<1>5. x = ab + m * (-j) /\ -j \in Int
  BY <1>4
<1>6. Congruent(x, ab, m)
  BY <1>5 DEF Congruent
<1> QED
  BY <1>4, <1>6 DEF x, ab

(* A square of a power.                                                    *)
LEMMA PowerOfSquare ==
  ASSUME NEW b \in Int, NEW h \in Nat
  PROVE  PowersOf(b * b)[h] = PowersOf(b)[2 * h]
<1>1. PowersOf(b * b)[h] = PowersOf(b)[h] * PowersOf(b)[h]
  BY PowerOfProduct
<1>2. PowersOf(b)[h + h] = PowersOf(b)[h] * PowersOf(b)[h]
  BY PowerOfSum
<1> QED
  BY <1>1, <1>2, h + h = 2 * h

(* What a round of the loop of modPow leaves to compute.                   *)
LEMMA PowerRound ==
  ASSUME NEW r \in Nat, NEW b \in Nat, NEW e \in Nat \ {0}, NEW mod \in Nat \ {0},
         NEW x \in Nat, NEW y \in Nat,
         Congruent(x, IF e % 2 = 1 THEN r * b ELSE r, mod), Congruent(y, b * b, mod)
  PROVE  Congruent(x * PowersOf(y)[e \div 2], r * PowersOf(b)[e], mod)
<1> DEFINE h == e \div 2
           sq == b * b
           pw == PowersOf(b)[2 * h]
           z == IF e % 2 = 1 THEN r * b ELSE r
<1>1. h \in Nat /\ e = 2 * h + (e % 2) /\ e % 2 \in {0, 1} /\ 2 * h \in Nat
  OBVIOUS
<1>2. sq \in Nat /\ z \in Nat /\ mod \in Int
  BY Products
<1>3. PowersOf(sq)[h] = pw /\ pw \in Int
  <2> HIDE DEF h
  <2>1. PowersOf(b * b)[h] = PowersOf(b)[2 * h] /\ b \in Int
    BY <1>1, PowerOfSquare
  <2>2. PowersOf(b)[2 * h] \in Int
    BY <1>1, <2>1, PowersAreIntegers
  <2> QED
    BY <2>1, <2>2
<1>4. Congruent(PowersOf(y)[h], PowersOf(sq)[h], mod)
  <2> HIDE DEF sq, h
  <2> QED
    BY <1>1, <1>2, CongruentPowers DEF sq
<1>5. PowersOf(y)[h] \in Int
  BY <1>1, PowersAreIntegers
<1>6. Congruent(x, z, mod)
  OBVIOUS
<1>7. z * pw = r * PowersOf(b)[e]
  <2>1. CASE e % 2 = 1
    <3>1. PowersOf(b)[2 * h + 1] = b * pw
      BY <1>1, PowersGoOn
    <3>2. e = 2 * h + 1 /\ z = r * b
      BY <1>1, <2>1
    <3>3. (r * b) * pw = r * (b * pw)
      BY <1>3
    <3> QED
      BY <3>1, <3>2, <3>3
  <2>2. CASE e % 2 = 0
    <3>1. e = 2 * h /\ z = r
      BY <1>1, <2>2
    <3> QED
      BY <3>1
  <2> QED
    BY <1>1, <2>1, <2>2
<1> HIDE DEF z, pw, sq, h
<1>8. Congruent(x * PowersOf(y)[h], z * pw, mod)
  <2> DEFINE u == PowersOf(y)[h]
  <2>1. Congruent(u, pw, mod) /\ u \in Int /\ pw \in Int
    BY <1>3, <1>4, <1>5
  <2>2. x \in Int /\ z \in Int /\ mod \in Int
    BY <1>2
  <2> HIDE DEF u
  <2>3. Congruent(x * u, z * pw, mod)
    BY <1>6, <2>1, <2>2, CongruentProducts
  <2> QED
    BY <2>3 DEF u
<1> QED
  BY <1>7, <1>8 DEF h

(* What the loop of modPow computes.                                       *)
LEMMA PowerLoopComputes ==
  ASSUME NEW mod \in Nat \ {0}, NEW f, IsPowerLoop(f, mod)
  PROVE  \A e \in Nat : \A r \in 0 .. mod - 1, b \in Nat :
           /\ f[<<r, b, e>>] \in 0 .. mod - 1
           /\ Congruent(f[<<r, b, e>>], r * PowersOf(b)[e], mod)
<1> DEFINE Right(r, b, e) == /\ f[<<r, b, e>>] \in 0 .. mod - 1
                             /\ Congruent(f[<<r, b, e>>], r * PowersOf(b)[e], mod)
           P == {e \in Nat : \A r \in 0 .. mod - 1, b \in Nat : Right(r, b, e)}
<1>1. ASSUME NEW e \in Nat, \A k \in 0 .. e - 1 : k \in P PROVE e \in P
  <2> SUFFICES ASSUME NEW r \in 0 .. mod - 1, NEW b \in Nat PROVE Right(r, b, e)
    OBVIOUS
  <2> DEFINE s == <<r, b, e>>
             t == PowerStep(s, mod)
             x == IF e % 2 = 1 THEN MulMod(r, b, mod) ELSE r
             y == MulMod(b, b, mod)
             h == e \div 2
  <2>1. s \in PowerStates /\ s[1] = r /\ s[2] = b /\ s[3] = e /\ r \in Nat
    BY DEF PowerStates
  <2>2. f[s] = IF s[3] = 0 THEN s[1] ELSE f[t]
    BY <2>1, Zenon DEF IsPowerLoop
  <2>3. t = <<x, y, h>>
    BY DEF PowerStep
  <2>4. CASE e = 0
    <3>1. f[s] = r
      BY <2>1, <2>2, <2>4
    <3>2. r * PowersOf(b)[e] = r
      <4>1. PowersOf(b)[0] = 1
        BY PowersGoOn
      <4> QED
        BY <2>1, <2>4, <4>1
    <3>3. Congruent(r, r, mod)
      BY CongruentToItself
    <3> HIDE DEF P
    <3> QED
      BY <3>1, <3>2, <3>3
  <2>5. CASE e # 0
    <3>1. h \in 0 .. e - 1
      BY <2>5
    <3>2. x \in 0 .. mod - 1 /\ y \in 0 .. mod - 1
      BY <2>1, MulModComputes
    <3>3. Congruent(x, IF e % 2 = 1 THEN r * b ELSE r, mod)
      <4>1. Congruent(r, r, mod) /\ Congruent(MulMod(r, b, mod), r * b, mod)
        BY <2>1, MulModComputes, CongruentToItself
      <4> QED
        BY <4>1
    <3>4. Congruent(y, b * b, mod)
      BY <2>1, MulModComputes
    <3> HIDE DEF x, y, h
    <3>5. Congruent(x * PowersOf(y)[h], r * PowersOf(b)[e], mod)
      <4>1. x \in Nat /\ y \in Nat /\ e \in Nat \ {0}
        BY <2>5, <3>2
      <4>2. Congruent(x * PowersOf(y)[e \div 2], r * PowersOf(b)[e], mod)
        BY <2>1, <3>3, <3>4, <4>1, PowerRound
      <4> QED
        BY <4>2 DEF h
    <3>6. Right(x, y, h)
      <4>1. h \in P
        BY <1>1, <3>1
      <4> HIDE DEF Right
      <4> QED
        BY <3>2, <4>1
    <3>7. f[s] = f[<<x, y, h>>]
      BY <2>1, <2>2, <2>3, <2>5
    <3>8. f[s] \in 0 .. mod - 1 /\ Congruent(f[s], x * PowersOf(y)[h], mod)
      BY <3>6, <3>7
    <3>9. Congruent(f[s], r * PowersOf(b)[e], mod)
      <4> DEFINE v == f[s]
                 u == x * PowersOf(y)[h]
                 w == r * PowersOf(b)[e]
      <4>1. v \in Int /\ u \in Int /\ w \in Int
        <5>1. PowersOf(y)[h] \in Int /\ PowersOf(b)[e] \in Int /\ x \in Int /\ r \in Int
          BY <3>1, <3>2, PowersAreIntegers
        <5>2. v \in Int
          BY <3>8
        <5> QED
          BY <5>1, <5>2
      <4>2. Congruent(v, u, mod) /\ Congruent(u, w, mod)
        BY <3>5, <3>8
      <4> HIDE DEF v, u, w
      <4>3. Congruent(v, w, mod)
        BY <4>1, <4>2, CongruentOver
      <4> QED
        BY <4>3 DEF v, w
    <3> HIDE DEF P
    <3> QED
      BY <3>8, <3>9
  <2> QED
    BY <2>4, <2>5
<1> HIDE DEF P
<1>2. \A e \in Nat : e \in P
  BY <1>1, StrongInduction
<1> QED
  BY <1>2 DEF P

(* modPow computes the remainder of the power.                             *)
LEMMA ModPowComputes ==
  ASSUME NEW base \in Nat, NEW exp \in Nat, NEW mod \in Nat \ {0, 1}
  PROVE  /\ ModPow(base, exp, mod) \in 0 .. mod - 1
         /\ Congruent(ModPow(base, exp, mod), PowersOf(base)[exp], mod)
<1>1. PICK f : IsPowerLoop(f, mod) /\ ModPow(base, exp, mod) = f[<<1, base % mod, exp>>]
  BY PowerByDefinition
<1> DEFINE b == base % mod
           one == 1
           v == f[<<one, b, exp>>]
<1>2. b \in Nat /\ Congruent(b, base, mod) /\ one \in 0 .. mod - 1
  <2>1. b \in 0 .. mod - 1 /\ Congruent(b, base, mod)
    BY CongruentRemainder
  <2> QED
    BY <2>1
<1> HIDE DEF b, one
<1>3. v \in 0 .. mod - 1 /\ Congruent(v, one * PowersOf(b)[exp], mod)
  BY <1>1, <1>2, PowerLoopComputes
<1>4. PowersOf(b)[exp] \in Int /\ PowersOf(base)[exp] \in Int
  BY <1>2, PowersAreIntegers
<1>5. one * PowersOf(b)[exp] = PowersOf(b)[exp]
  BY <1>4 DEF one
<1>6. Congruent(PowersOf(b)[exp], PowersOf(base)[exp], mod)
  BY <1>2, CongruentPowers
<1> HIDE DEF v
<1>7. Congruent(v, PowersOf(base)[exp], mod)
  <2>1. v \in Int /\ Congruent(v, PowersOf(b)[exp], mod)
    BY <1>3, <1>5
  <2> QED
    BY <1>4, <1>6, <2>1, CongruentOver
<1> QED
  BY <1>1, <1>3, <1>7 DEF v, one, b

(* So two congruent numbers give the same.                                 *)
LEMMA ModPowIsRemainder ==
  ASSUME NEW base \in Nat, NEW exp \in Nat, NEW mod \in Nat \ {0, 1}, NEW v \in 0 .. mod - 1
  PROVE  ModPow(base, exp, mod) = v <=> Congruent(PowersOf(base)[exp], v, mod)
<1> DEFINE x == ModPow(base, exp, mod)
           p == PowersOf(base)[exp]
<1>1. x \in 0 .. mod - 1 /\ Congruent(x, p, mod) /\ p \in Int /\ x \in Int
  BY ModPowComputes, PowersAreIntegers
<1> HIDE DEF x, p
<1>2. Congruent(p, x, mod)
  BY <1>1, CongruentBack
<1>3. ASSUME Congruent(p, v, mod) PROVE x = v
  <2>1. Congruent(x, v, mod)
    BY <1>1, <1>3, CongruentOver
  <2> QED
    BY <1>1, <2>1, CongruentRemainders
<1> QED
  BY <1>2, <1>3 DEF x, p

-----------------------------------------------------------------------------
(* How often a number can be divided by two. *)
(* PowerOfTwo gives the powers of two.                                     *)
LEMMA PowerOfTwoIs == \A k \in Nat : PowerOfTwo[k] = PowersOf(2)[k]
<1> DEFINE two == 2
           f == PowersOf(two)
<1>1. IsDoubling(PowerOfTwo)
  <2>1. PowerOfTwo = CHOOSE g : IsDoubling(g)
    BY Zenon DEF PowerOfTwo, IsDoubling
  <2> QED
    BY <2>1, DoublingExists, Zenon
<1>2. \A k \in Nat : PowerOfTwo[k] = IF k = 0 THEN 1 ELSE 2 * PowerOfTwo[k - 1]
  BY <1>1, Zenon DEF IsDoubling
<1>3. f[0] = 1 /\ \A k \in Nat : f[k + 1] = two * f[k]
  <2>1. two \in Int
    OBVIOUS
  <2> HIDE DEF two
  <2> QED
    BY <2>1, PowersGoOn
<1> DEFINE P == {k \in Nat : PowerOfTwo[k] = f[k]}
<1>4. 0 \in P
  BY <1>2, <1>3
<1>5. ASSUME NEW k \in Nat, k \in P PROVE k + 1 \in P
  <2>1. PowerOfTwo[k + 1] = 2 * PowerOfTwo[k]
    BY <1>2
  <2> QED
    BY <1>3, <1>5, <2>1
<1> HIDE DEF P
<1>6. \A k \in Nat : k \in P
  BY <1>4, <1>5, NumbersInduction
<1> QED
  BY <1>6 DEF P

IsTwos(f) == f = [m \in Nat \ {0} |-> IF m % 2 = 0 THEN 1 + f[m \div 2] ELSE 0]

(* The loop ends at an odd number.                                         *)
LEMMA TwosExist == \E f \in [Nat \ {0} -> Nat] : IsTwos(f)
<1> DEFINE X == Nat \ {0}
           V == Nat
           rank == [k \in X |-> k]
           D == [k \in X |-> [g \in [X -> V] |-> IF k % 2 = 0 THEN 1 + g[k \div 2] ELSE 0]]
<1>1. ASSUME NEW k \in X, NEW g \in [X -> V]
      PROVE  D[k][g] = IF k % 2 = 0 THEN 1 + g[k \div 2] ELSE 0
  BY DEF D
<1>0. ASSUME NEW k \in X, k % 2 = 0 PROVE k \div 2 \in X /\ k \div 2 < k
  BY <1>0
<1>2. ASSUME NEW k \in X, NEW g \in [X -> V] PROVE D[k][g] \in V
  <2> HIDE DEF D, X
  <2>1. k % 2 = 0 => g[k \div 2] \in Nat
    BY <1>0
  <2> QED
    BY <1>1, <2>1
<1>3. D \in [X -> [[X -> V] -> V]]
  <2>1. \A k \in X : D[k] = [g \in [X -> V] |-> D[k][g]]
    OBVIOUS
  <2>2. D = [k \in X |-> D[k]]
    OBVIOUS
  <2> HIDE DEF D, X
  <2> QED
    BY <1>2, <2>1, <2>2
<1>4. ASSUME NEW g \in [X -> V], NEW h \in [X -> V], NEW k \in X,
             \A y \in X : rank[y] < rank[k] => g[y] = h[y]
      PROVE  D[k][g] = D[k][h]
  <2>1. k % 2 = 0 => g[k \div 2] = h[k \div 2]
    BY <1>0, <1>4
  <2> HIDE DEF D
  <2> QED
    BY <1>1, <2>1
<1>5. PICK f \in [X -> V] : \A k \in X : f[k] = D[k][f]
  <2>1. rank \in [X -> Nat] /\ V # {}
    OBVIOUS
  <2> HIDE DEF V, X, rank, D
  <2>2. IsRecursion(D, X, V, rank)
    BY <1>3, <1>4, <2>1 DEF IsRecursion
  <2> QED
    BY <2>2, Recursion
<1>6. \A k \in X : f[k] = IF k % 2 = 0 THEN 1 + f[k \div 2] ELSE 0
  BY <1>1, <1>5
<1>7. f = [k \in X |-> f[k]]
  BY <1>5
<1> HIDE DEF D
<1>8. IsTwos(f)
  BY <1>6, <1>7, Zenon DEF IsTwos
<1> QED
  BY <1>5, <1>8

(* A number is a power of two and an odd number.                           *)
LEMMA TwosTaken ==
  ASSUME NEW f, IsTwos(f)
  PROVE  \A m \in Nat \ {0} :
           /\ f[m] \in Nat
           /\ \E d \in Nat : d % 2 = 1 /\ m = PowersOf(2)[f[m]] * d
<1> DEFINE two == 2
           pow == PowersOf(two)
           P == {m \in Nat : m # 0 => /\ f[m] \in Nat
                                      /\ \E d \in Nat : d % 2 = 1 /\ m = pow[f[m]] * d}
<1>1. pow[0] = 1 /\ (\A k \in Nat : pow[k + 1] = two * pow[k]) /\ \A k \in Nat : pow[k] \in Nat
  <2>1. two \in Nat
    OBVIOUS
  <2> HIDE DEF two
  <2> QED
    BY <2>1, PowersGoOn, PowersAreNumbers
<1> HIDE DEF pow
<1>2. ASSUME NEW m \in Nat, \A k \in 0 .. m - 1 : k \in P PROVE m \in P
  <2> SUFFICES ASSUME m # 0
               PROVE  f[m] \in Nat /\ \E d \in Nat : d % 2 = 1 /\ m = pow[f[m]] * d
    OBVIOUS
  <2>1. f[m] = IF m % 2 = 0 THEN 1 + f[m \div 2] ELSE 0
    BY Zenon DEF IsTwos
  <2>2. CASE m % 2 # 0
    <3>1. f[m] = 0 /\ m % 2 = 1 /\ m = pow[f[m]] * m
      BY <1>1, <2>1, <2>2
    <3> QED
      BY <3>1
  <2>3. CASE m % 2 = 0
    <3> DEFINE h == m \div 2
    <3>1. h \in 0 .. m - 1 /\ h # 0 /\ m = 2 * h
      BY <2>3
    <3>2. f[h] \in Nat /\ \E d \in Nat : d % 2 = 1 /\ h = pow[f[h]] * d
      BY <1>2, <3>1
    <3>3. PICK d \in Nat : d % 2 = 1 /\ h = pow[f[h]] * d
      BY <3>2
    <3>4. f[m] = f[h] + 1
      BY <2>1, <2>3, <3>2
    <3> HIDE DEF h, P
    <3>5. pow[f[h] + 1] = 2 * pow[f[h]] /\ pow[f[h]] \in Nat
      BY <1>1, <3>2
    <3>6. (2 * pow[f[h]]) * d = 2 * (pow[f[h]] * d)
      BY <3>5
    <3>7. m = pow[f[m]] * d
      BY <3>1, <3>3, <3>4, <3>5, <3>6
    <3> QED
      BY <3>2, <3>3, <3>4, <3>7
  <2> QED
    BY <2>2, <2>3
<1> HIDE DEF P
<1>3. \A m \in Nat : m \in P
  BY <1>2, StrongInduction
<1> QED
  BY <1>3 DEF P, pow

(* Every number is one.                                                    *)
LEMMA EvenPartThereIs ==
  ASSUME NEW m \in Nat \ {0}
  PROVE  \E r \in Nat : \E d \in Nat : d % 2 = 1 /\ m = PowersOf(2)[r] * d
<1>1. PICK f \in [Nat \ {0} -> Nat] : IsTwos(f)
  BY TwosExist
<1>2. f[m] \in Nat /\ \E d \in Nat : d % 2 = 1 /\ m = PowersOf(2)[f[m]] * d
  BY <1>1, TwosTaken
<1> QED
  BY <1>2

-----------------------------------------------------------------------------
(* A is what i steps make of the elements of S: it comes back to each      *)
(* element after N steps and not before.                                   *)
IsCycle(A, S, N) ==
  /\ A \in [S -> [Nat -> S]]
  /\ \A x \in S : A[x][0] = x /\ A[x][N] = x
  /\ \A x \in S : \A i, j \in Nat : A[x][i + j] = A[A[x][i]][j]
  /\ \A x \in S : \A k \in 1 .. N - 1 : A[x][k] # x

(* Steps after steps.                                                      *)
Steps(A, x, i, j) == A[x][i + j] = A[A[x][i]][j]

(* Steps after steps.                                                      *)
LEMMA StepsAdd ==
  ASSUME NEW S, NEW N, NEW A, IsCycle(A, S, N), NEW x \in S, NEW i \in Nat, NEW j \in Nat
  PROVE  Steps(A, x, i, j)
<1>1. \A y \in S : \A i1, j1 \in Nat : A[y][i1 + j1] = A[A[y][i1]][j1]
  BY DEF IsCycle
<1>2. A[x][i + j] = A[A[x][i]][j]
  BY <1>1, Zenon
<1> QED
  BY <1>2 DEF Steps

ComesBack(A, N, x) == \A k \in Nat : A[x][N * k] = x

(* It comes back after any number of rounds.                               *)
LEMMA RoundsComeBack ==
  ASSUME NEW S, NEW N \in Nat \ {0}, NEW A, IsCycle(A, S, N), NEW x \in S
  PROVE  ComesBack(A, N, x)
<1> DEFINE P == {k \in Nat : A[x][N * k] = x}
<1>1. 0 \in P
  <2>1. A[x][0] = x /\ N * 0 = 0
    BY DEF IsCycle
  <2> QED
    BY <2>1
<1>2. ASSUME NEW k \in Nat, k \in P PROVE k + 1 \in P
  <2>1. N * k \in Nat /\ N * k + N = N * (k + 1)
    BY Products
  <2>2. A[x][N * k + N] = A[A[x][N * k]][N]
    BY <2>1 DEF IsCycle
  <2>3. A[x][N * (k + 1)] = x
    BY <1>2, <2>1, <2>2 DEF IsCycle
  <2> QED
    BY <2>3
<1> HIDE DEF P
<1>3. \A k \in Nat : k \in P
  BY <1>1, <1>2, NumbersInduction
<1> QED
  BY <1>3 DEF P, ComesBack

(* What steps make of x, as many as it takes to come back. *)
Orbit(A, N, x) == {A[x][i] : i \in 0 .. N - 1}

(* Any number of steps stays in the orbit.                                 *)
LEMMA OrbitIsClosed ==
  ASSUME NEW S, NEW N \in Nat \ {0}, NEW A, IsCycle(A, S, N), NEW x \in S, NEW k \in Nat
  PROVE  A[x][k] \in Orbit(A, N, x)
<1> DEFINE q == k \div N
           r == k % N
<1>1. q \in Nat /\ r \in 0 .. N - 1 /\ k = N * q + r /\ N * q \in Nat
  BY DivisionIs, Products
<1> HIDE DEF q, r
<1>2. A[x][N * q] = x
  <2>1. ComesBack(A, N, x)
    BY RoundsComeBack
  <2> QED
    BY <1>1, <2>1 DEF ComesBack
<1> DEFINE t == N * q
<1>3. t \in Nat /\ r \in Nat
  BY <1>1
<1> HIDE DEF t
<1>4. A[x][t + r] = A[A[x][t]][r]
  <2>1. Steps(A, x, t, r)
    BY <1>3, StepsAdd, Zenon
  <2> QED
    BY <2>1 DEF Steps
<1> USE DEF t
<1>5. A[x][k] = A[x][r]
  BY <1>1, <1>2, <1>4
<1> QED
  BY <1>1, <1>5 DEF Orbit

(* An orbit has N elements.                                                *)
LEMMA OrbitHas ==
  ASSUME NEW S, NEW N \in Nat \ {0}, NEW A, IsCycle(A, S, N), NEW x \in S
  PROVE  IsFiniteSet(Orbit(A, N, x)) /\ Cardinality(Orbit(A, N, x)) = N
<1> DEFINE D == 0 .. N - 1
           O == Orbit(A, N, x)
           f == [i \in D |-> A[x][i]]
<1>1. IsFiniteSet(D) /\ Cardinality(D) = N
  <2> DEFINE a == 0
             b == N - 1
  <2>1. a \in Int /\ b \in Int /\ ~(a > b) /\ b - a + 1 = N
    OBVIOUS
  <2> HIDE DEF a, b
  <2>2. IsFiniteSet(a .. b) /\ Cardinality(a .. b) = N
    BY <2>1, FS_Interval
  <2> QED
    BY <2>2 DEF a, b
<1>2. ASSUME NEW i \in D, NEW j \in D, i < j PROVE A[x][i] # A[x][j]
  <2> DEFINE y == A[x][i]
             k == j - i
  <2>1. y \in S /\ k \in 1 .. N - 1 /\ k \in Nat /\ i \in Nat /\ j = i + k
    BY <1>2 DEF IsCycle
  <2>2. A[x][i + k] = A[y][k]
    <3>1. i \in Nat /\ k \in Nat
      BY <2>1
    <3> HIDE DEF k, y
    <3>2. Steps(A, x, i, k)
      BY <3>1, StepsAdd
    <3> QED
      BY <3>2 DEF Steps, y
  <2> HIDE DEF y, k
  <2>3. A[y][k] # y
    BY <2>1 DEF IsCycle
  <2> QED
    BY <2>1, <2>2, <2>3 DEF y
<1>3. f \in Bijection(D, O)
  <2>1. f \in [D -> O]
    BY DEF Orbit
  <2>2. \A i, j \in D : f[i] = f[j] => i = j
    <3> SUFFICES ASSUME NEW i \in D, NEW j \in D, i # j PROVE A[x][i] # A[x][j]
      OBVIOUS
    <3>1. i < j \/ j < i
      OBVIOUS
    <3> QED
      BY <1>2, <3>1
  <2>3. \A y \in O : \E i \in D : f[i] = y
    BY DEF Orbit
  <2> HIDE DEF f, D, O
  <2> QED
    BY <2>1, <2>2, <2>3 DEF Bijection, Injection, Surjection, IsInjective
<1>4. ExistsBijection(D, O)
  BY <1>3 DEF ExistsBijection
<1> HIDE DEF D, O
<1>5. IsFiniteSet(O) /\ Cardinality(O) = Cardinality(D)
  BY <1>1, <1>4, FS_Bijection
<1> QED
  BY <1>1, <1>5 DEF O

(* So N divides how many elements there are.                               *)
LEMMA CyclesDivide ==
  ASSUME NEW S, IsFiniteSet(S), NEW N \in Nat \ {0}, NEW A, IsCycle(A, S, N)
  PROVE  \E q \in Nat : Cardinality(S) = N * q
<1> DEFINE Closed(T) == \A x \in T : \A i \in Nat : A[x][i] \in T
           P == {n \in Nat : \A T \in SUBSET S :
                   Closed(T) /\ Cardinality(T) = n => \E q \in Nat : n = N * q}
<1>1. ASSUME NEW n \in Nat, \A m \in 0 .. n - 1 : m \in P PROVE n \in P
  <2> SUFFICES ASSUME NEW T \in SUBSET S, Closed(T), Cardinality(T) = n
               PROVE  \E q \in Nat : n = N * q
    OBVIOUS
  <2>1. IsFiniteSet(T)
    BY FS_Subset
  <2>2. CASE T = {}
    <3>1. n = 0
      BY <2>2, FS_EmptySet
    <3>2. n = N * 0
      BY <3>1
    <3> QED
      BY <3>2
  <2>3. CASE T # {}
    <3>1. PICK x \in T : TRUE
      BY <2>3
    <3> DEFINE O == Orbit(A, N, x)
               U == T \ O
    <3>2. IsFiniteSet(O) /\ Cardinality(O) = N
      BY <3>1, OrbitHas
    <3>3. O \subseteq T
      BY <3>1 DEF Orbit
    <3>4. Closed(U)
      <4> SUFFICES ASSUME NEW y \in U, NEW i \in Nat PROVE A[y][i] \notin O
        OBVIOUS
      <4> SUFFICES ASSUME A[y][i] \in O PROVE FALSE
        OBVIOUS
      <4>1. PICK j \in 0 .. N - 1 : A[y][i] = A[x][j]
        BY DEF Orbit
      <4> DEFINE k == (N - 1) * i
      <4>2. k \in Nat /\ i + k = N * i /\ j \in Nat /\ j + k \in Nat
        <5>1. k \in Nat
          BY Products
        <5>2. i + (N - 1) * i = N * i /\ j \in Nat
          OBVIOUS
        <5> QED
          BY <5>1, <5>2
      <4>3. y \in S /\ x \in S /\ y \notin O
        BY <3>1
      <4> HIDE DEF k, O, U, P
      <4>4. A[y][i + k] = A[A[y][i]][k] /\ A[x][j + k] = A[A[x][j]][k]
        <5>1. i \in Nat /\ j \in Nat /\ k \in Nat /\ x \in S /\ y \in S
          BY <4>2, <4>3
        <5>2. Steps(A, y, i, k) /\ Steps(A, x, j, k)
          BY <5>1, StepsAdd
        <5> QED
          BY <5>2 DEF Steps
      <4>5. A[y][N * i] = y
        <5>1. ComesBack(A, N, y)
          BY <4>3, RoundsComeBack
        <5> QED
          BY <5>1 DEF ComesBack
      <4>6. A[x][j + k] \in O
        BY <4>2, <4>3, OrbitIsClosed DEF O
      <4> QED
        BY <4>1, <4>2, <4>3, <4>4, <4>5, <4>6
    <3>5. IsFiniteSet(U) /\ Cardinality(U) = n - N
      <4>1. T \cap O = O
        BY <3>3
      <4> HIDE DEF O, P
      <4>2. IsFiniteSet(T \ O) /\ Cardinality(T \ O) = Cardinality(T) - Cardinality(T \cap O)
        BY <2>1, FS_Difference
      <4> QED
        BY <3>2, <4>1, <4>2
    <3>6. n - N \in 0 .. n - 1
      <4>1. Cardinality(U) \in Nat
        BY <3>5, FS_CardinalityType
      <4> QED
        BY <3>5, <4>1
    <3>7. U \in SUBSET S
      OBVIOUS
    <3> HIDE DEF U, Closed
    <3>8. PICK q \in Nat : n - N = N * q
      BY <1>1, <3>4, <3>5, <3>6, <3>7
    <3>9. n = N * (q + 1) /\ q + 1 \in Nat
      BY <3>8
    <3> QED
      BY <3>9
  <2> QED
    BY <2>2, <2>3
<1> HIDE DEF P
<1>2. \A n \in Nat : n \in P
  BY <1>1, StrongInduction
<1>3. Cardinality(S) \in Nat
  BY FS_CardinalityType
<1>4. Closed(S)
  BY DEF IsCycle
<1>5. S \in SUBSET S
  OBVIOUS
<1> HIDE DEF Closed
<1> QED
  BY <1>2, <1>3, <1>4, <1>5 DEF P

-----------------------------------------------------------------------------
(* Multiplying by a number, modulo another. *)
OneModulo(a, m) == Congruent(a, 1, m)
MinusOneModulo(a, m) == Congruent(a, -1, m)

(* What is 1 leaves a product as it is.                                    *)
LEMMA TimesOneModulo ==
  ASSUME NEW x \in Int, NEW a \in Int, NEW m \in Int, OneModulo(a, m)
  PROVE  Congruent(x * a, x, m)
<1>1. PICK j \in Int : a = 1 + m * j
  BY DEF OneModulo, Congruent
<1>2. x * a = x + m * (x * j) /\ x * j \in Int
  <2>1. x * (1 + m * j) = x + m * (x * j)
    OBVIOUS
  <2> QED
    BY <1>1, <2>1
<1> QED
  BY <1>2 DEF Congruent

(* The powers of what is 1.                                                *)
LEMMA PowersOfOneModulo ==
  ASSUME NEW a \in Int, NEW m \in Int, OneModulo(a, m), NEW k \in Nat
  PROVE  OneModulo(PowersOf(a)[k], m)
<1> DEFINE one == 1
<1>1. Congruent(a, one, m) /\ one \in Int
  BY DEF OneModulo
<1> HIDE DEF one
<1>2. Congruent(PowersOf(a)[k], PowersOf(one)[k], m)
  BY <1>1, CongruentPowers
<1>3. PowersOf(one)[k] = one
  BY PowersOfOne DEF one
<1> QED
  BY <1>2, <1>3 DEF OneModulo, one

(* The square of what is -1.                                               *)
LEMMA SquareOfMinusOne ==
  ASSUME NEW a \in Int, NEW m \in Int, MinusOneModulo(a, m)
  PROVE  OneModulo(a * a, m)
<1>1. PICK j \in Int : a = -1 + m * j
  BY DEF MinusOneModulo, Congruent
<1>2. (-1 + m * j) * (-1 + m * j) = 1 + m * (m * (j * j) - 2 * j)
  OBVIOUS
<1>3. a * a = 1 + m * (m * (j * j) - 2 * j) /\ m * (j * j) - 2 * j \in Int
  BY <1>1, <1>2
<1> QED
  BY <1>3 DEF OneModulo, Congruent

(* And its odd powers.                                                     *)
LEMMA OddPowersOfMinusOne ==
  ASSUME NEW a \in Int, NEW m \in Int, MinusOneModulo(a, m), NEW b \in Nat, b % 2 = 1
  PROVE  MinusOneModulo(PowersOf(a)[b], m)
<1> DEFINE h == b \div 2
<1>1. h \in Nat /\ b = 2 * h + 1 /\ 2 * h \in Nat
  OBVIOUS
<1> HIDE DEF h
<1> DEFINE sq == a * a
           p == PowersOf(a)[2 * h]
<1>2. sq \in Int /\ OneModulo(sq, m)
  BY SquareOfMinusOne
<1>3. OneModulo(p, m)
  <2> HIDE DEF sq
  <2>1. OneModulo(PowersOf(sq)[h], m)
    BY <1>1, <1>2, PowersOfOneModulo
  <2>2. PowersOf(a * a)[h] = PowersOf(a)[2 * h]
    BY <1>1, PowerOfSquare
  <2> QED
    BY <2>1, <2>2 DEF sq
<1>4. PowersOf(a)[2 * h + 1] = a * p
  BY <1>1, PowersGoOn
<1>5. p \in Int
  BY <1>1, PowersAreIntegers
<1> HIDE DEF p
<1>6. Congruent(a * p, a, m)
  BY <1>3, <1>5, TimesOneModulo
<1>7. Congruent(a * p, -1, m)
  <2> DEFINE minus == -1
             ap == a * p
  <2>1. minus \in Int /\ ap \in Int /\ Congruent(a, minus, m) /\ Congruent(ap, a, m)
    BY <1>5, <1>6 DEF MinusOneModulo
  <2> HIDE DEF minus, ap
  <2>2. Congruent(ap, minus, m)
    BY <2>1, CongruentOver
  <2> QED
    BY <2>2 DEF minus, ap
<1> QED
  BY <1>1, <1>4, <1>7 DEF MinusOneModulo

(* What a power of g leaves as it is, all powers of that power do.         *)
LEMMA FixedByPowers ==
  ASSUME NEW x \in Int, NEW g \in Int, NEW m \in Int, NEW k \in Nat,
         Congruent(x * PowersOf(g)[k], x, m), NEW j \in Nat
  PROVE  Congruent(x * PowersOf(g)[k * j], x, m)
<1> DEFINE u == PowersOf(g)[k]
           f == PowersOf(u)
<1>1. u \in Int /\ Congruent(x * u, x, m)
  BY PowersAreIntegers
<1>2. f[j] = PowersOf(g)[k * j]
  BY PowerOfPower
<1> HIDE DEF u
<1>3. f[0] = 1 /\ \A l \in Nat : f[l + 1] = u * f[l]
  BY <1>1, PowersGoOn
<1>4. \A l \in Nat : f[l] \in Int
  BY <1>1, PowersAreIntegers
<1> SUFFICES Congruent(x * f[j], x, m)
  BY <1>2
<1> HIDE DEF f
<1> DEFINE P == {l \in Nat : Congruent(x * f[l], x, m)}
<1>5. 0 \in P
  <2>1. x * f[0] = x /\ Congruent(x, x, m)
    BY <1>3, CongruentToItself
  <2> QED
    BY <2>1
<1>6. ASSUME NEW l \in Nat, l \in P PROVE l + 1 \in P
  <2> DEFINE a == x * u
             b == f[l]
  <2>1. b \in Int /\ a \in Int /\ Congruent(a, x, m) /\ Congruent(x * b, x, m)
    BY <1>1, <1>4, <1>6
  <2>2. Congruent(b, b, m)
    BY <2>1, CongruentToItself
  <2>3. a * b = x * f[l + 1]
    <3>1. f[l + 1] = u * b /\ u \in Int /\ b \in Int
      BY <1>1, <1>3, <1>4
    <3> HIDE DEF b
    <3>2. (x * u) * b = x * (u * b)
      BY <3>1
    <3> QED
      BY <3>1, <3>2
  <2> HIDE DEF a, b, P
  <2>4. Congruent(a * b, x * b, m)
    BY <2>1, <2>2, CongruentProducts
  <2>5. Congruent(a * b, x, m)
    <3> DEFINE ab == a * b
               xb == x * b
    <3>1. ab \in Int /\ xb \in Int /\ Congruent(ab, xb, m) /\ Congruent(xb, x, m)
      BY <2>1, <2>4
    <3> HIDE DEF ab, xb
    <3>2. Congruent(ab, x, m)
      BY <3>1, CongruentOver
    <3> QED
      BY <3>2 DEF ab
  <2> QED
    BY <2>3, <2>5 DEF P
<1> HIDE DEF P
<1>7. \A l \in Nat : l \in P
  BY <1>5, <1>6, NumbersInduction
<1> QED
  BY <1>7 DEF P

(* The remainders after multiplying x by the powers of g. *)
Multiplied(g, m) == [x \in 1 .. m - 1 |-> [i \in Nat |-> (x * PowersOf(g)[i]) % m]]

(* The N-th power of g is 1, and none before it leaves any remainder as it *)
(* is, except zero.                                                        *)
TurnsAround(g, m, N) ==
  /\ OneModulo(PowersOf(g)[N], m)
  /\ \A x \in 1 .. m - 1 : \A k \in 1 .. N - 1 : ~Congruent(x * PowersOf(g)[k], x, m)

(* What is multiplied is a remainder that is congruent to the product.     *)
LEMMA MultipliedIs ==
  ASSUME NEW g \in Nat, NEW m \in Nat \ {0, 1}, NEW x \in 1 .. m - 1, NEW i \in Nat
  PROVE  /\ Multiplied(g, m)[x][i] \in 0 .. m - 1
         /\ Congruent(Multiplied(g, m)[x][i], x * PowersOf(g)[i], m)
<1> DEFINE y == x * PowersOf(g)[i]
<1>1. y \in Nat
  <2>1. PowersOf(g)[i] \in Nat /\ x \in Nat
    BY PowersAreNumbers
  <2> QED
    BY <2>1, Products
<1>2. Multiplied(g, m)[x][i] = y % m
  BY DEF Multiplied
<1> HIDE DEF y
<1>3. Congruent(y % m, y, m) /\ y % m \in 0 .. m - 1
  BY <1>1, CongruentRemainder
<1> QED
  BY <1>2, <1>3 DEF y

(* No product is zero.                                                     *)
LEMMA MultipliedIsNotZero ==
  ASSUME NEW g \in Nat, NEW m \in Nat \ {0, 1}, NEW N \in Nat \ {0},
         OneModulo(PowersOf(g)[N], m), NEW x \in 1 .. m - 1, NEW i \in Nat
  PROVE  Multiplied(g, m)[x][i] # 0
<1> SUFFICES ASSUME Multiplied(g, m)[x][i] = 0 PROVE FALSE
  OBVIOUS
<1> DEFINE y == x * PowersOf(g)[i]
           zero == 0
           j == i * (N - 1)
           w == PowersOf(g)[j]
           v == PowersOf(g)[N * i]
<1>1. Congruent(zero, y, m)
  BY MultipliedIs
<1>2. j \in Nat /\ i + j = N * i /\ N * i \in Nat
  <2>1. i * (N - 1) \in Nat /\ N * i \in Nat
    BY Products
  <2>2. i + i * (N - 1) = N * i
    OBVIOUS
  <2> QED
    BY <2>1, <2>2
<1>3. PowersOf(g)[i] \in Int /\ PowersOf(g)[j] \in Int /\ v \in Int /\ PowersOf(g)[N] \in Int
  <2>1. \A k \in Nat : PowersOf(g)[k] \in Int
    BY PowersAreIntegers
  <2> HIDE DEF j
  <2> QED
    BY <1>2, <2>1
<1>4. v = PowersOf(g)[i] * w
  <2> HIDE DEF j
  <2>1. PowersOf(g)[i + j] = PowersOf(g)[i] * PowersOf(g)[j]
    BY <1>2, PowerOfSum
  <2> QED
    BY <1>2, <2>1
<1>5. OneModulo(v, m)
  <2> DEFINE u == PowersOf(g)[N]
  <2>1. PowersOf(u)[i] = v
    BY PowerOfPower
  <2>2. u \in Int /\ OneModulo(u, m)
    BY <1>3
  <2> HIDE DEF u, v
  <2>3. OneModulo(PowersOf(u)[i], m)
    BY <2>2, PowersOfOneModulo
  <2> QED
    BY <2>1, <2>3
<1>6. y \in Int /\ zero \in Int /\ w \in Int /\ y * w = x * v
  <2> DEFINE a == PowersOf(g)[i]
  <2>1. a \in Int /\ w \in Int /\ v = a * w
    BY <1>3, <1>4
  <2>2. y = x * a
    OBVIOUS
  <2> HIDE DEF a, w, v, y
  <2>3. (x * a) * w = x * (a * w)
    BY <2>1
  <2> QED
    BY <2>1, <2>2, <2>3
<1> HIDE DEF y, zero, j, w, v
<1>7. Congruent(zero * w, y * w, m)
  <2>1. Congruent(w, w, m)
    BY <1>6, CongruentToItself
  <2> QED
    BY <1>1, <1>6, <2>1, CongruentProducts
<1>8. Congruent(x * v, x, m)
  BY <1>3, <1>5, TimesOneModulo
<1>9. Congruent(zero, x, m)
  <2>1. zero * w = zero
    BY <1>6 DEF zero
  <2> DEFINE xv == x * v
  <2>2. xv \in Int /\ Congruent(zero, xv, m) /\ Congruent(xv, x, m)
    BY <1>3, <1>6, <1>7, <1>8, <2>1
  <2> HIDE DEF xv
  <2> QED
    BY <1>6, <2>2, CongruentOver
<1>10. zero \in 0 .. m - 1 /\ x \in 0 .. m - 1
  BY DEF zero
<1>11. zero = x
  BY <1>9, <1>10, CongruentRemainders
<1> QED
  BY <1>11 DEF zero

(* So the remainders other than zero come back after N steps, not before.  *)
LEMMA MultipliedIsCycle ==
  ASSUME NEW g \in Nat, NEW m \in Nat \ {0, 1}, NEW N \in Nat \ {0}, TurnsAround(g, m, N)
  PROVE  IsCycle(Multiplied(g, m), 1 .. m - 1, N)
<1> DEFINE S == 1 .. m - 1
           A == Multiplied(g, m)
           f == PowersOf(g)
<1>1. \A i \in Nat : f[i] \in Int
  BY PowersAreIntegers
<1>2. OneModulo(f[N], m) /\ f[0] = 1
  BY PowersGoOn DEF TurnsAround
<1>3. ASSUME NEW x \in S, NEW i \in Nat
      PROVE  A[x][i] \in S /\ Congruent(A[x][i], x * f[i], m)
  <2>1. A[x][i] \in 0 .. m - 1 /\ Congruent(A[x][i], x * f[i], m)
    BY MultipliedIs
  <2>2. A[x][i] # 0
    BY <1>2, MultipliedIsNotZero
  <2> HIDE DEF A, f
  <2> QED
    BY <2>1, <2>2
<1>4. A \in [S -> [Nat -> S]]
  <2>1. A = [x \in S |-> A[x]] /\ \A x \in S : A[x] = [i \in Nat |-> A[x][i]]
    BY DEF Multiplied
  <2> HIDE DEF A, S
  <2> QED
    BY <1>3, <2>1
<1> HIDE DEF A
<1>5. ASSUME NEW x \in S, NEW y \in S, NEW i \in Nat, Congruent(x * f[i], y, m)
      PROVE  A[x][i] = y
  <2> DEFINE a == A[x][i]
             b == x * f[i]
  <2>1. a \in S /\ Congruent(a, b, m) /\ Congruent(b, y, m) /\ a \in Int /\ b \in Int /\ y \in Int
    BY <1>1, <1>3, <1>5
  <2> HIDE DEF a, b
  <2>2. Congruent(a, y, m)
    BY <2>1, CongruentOver
  <2>3. a \in 0 .. m - 1 /\ y \in 0 .. m - 1
    BY <2>1
  <2>4. a = y
    BY <2>2, <2>3, CongruentRemainders
  <2> QED
    BY <2>4 DEF a
<1> HIDE DEF f
<1>6. ASSUME NEW x \in S PROVE A[x][0] = x /\ A[x][N] = x
  <2>1. x * f[0] = x /\ Congruent(x, x, m)
    BY <1>2, CongruentToItself
  <2>2. Congruent(x * f[N], x, m)
    <3> DEFINE u == f[N]
    <3>1. u \in Int /\ OneModulo(u, m) /\ x \in Int
      BY <1>1, <1>2
    <3> HIDE DEF u
    <3>2. Congruent(x * u, x, m)
      BY <3>1, TimesOneModulo
    <3> QED
      BY <3>2 DEF u
  <2> QED
    BY <1>5, <2>1, <2>2
<1>7. ASSUME NEW x \in S, NEW i \in Nat, NEW j \in Nat
      PROVE  A[x][i + j] = A[A[x][i]][j]
  <2> DEFINE y == A[x][i]
             z == A[y][j]
             a == x * f[i]
             b == f[j]
  <2>1. y \in S /\ Congruent(y, a, m)
    BY <1>3
  <2>2. z \in S /\ Congruent(z, y * b, m)
    <3> HIDE DEF y
    <3> QED
      BY <1>3, <2>1
  <2>3. a \in Int /\ b \in Int /\ f[i] \in Int /\ y \in Int /\ z \in Int
    BY <1>1, <2>1, <2>2
  <2>4. x * f[i + j] = a * b
    <3>1. f[i + j] = f[i] * f[j]
      BY PowerOfSum DEF f
    <3>2. x * (f[i] * b) = (x * f[i]) * b
      BY <2>3
    <3> QED
      BY <3>1, <3>2
  <2> HIDE DEF y, z, a, b
  <2>5. Congruent(y * b, a * b, m)
    <3>1. Congruent(b, b, m)
      BY <2>3, CongruentToItself
    <3> QED
      BY <2>1, <2>3, <3>1, CongruentProducts
  <2>6. Congruent(a * b, z, m)
    <3> DEFINE ab == a * b
               yb == y * b
    <3>1. ab \in Int /\ yb \in Int /\ Congruent(yb, ab, m) /\ Congruent(z, yb, m)
      BY <2>2, <2>3, <2>5
    <3> HIDE DEF ab, yb
    <3>2. Congruent(z, ab, m)
      BY <2>3, <3>1, CongruentOver
    <3>3. Congruent(ab, z, m)
      BY <2>3, <3>1, <3>2, CongruentBack
    <3> QED
      BY <3>3 DEF ab
  <2>7. Congruent(x * f[i + j], z, m) /\ i + j \in Nat
    BY <2>4, <2>6
  <2>8. A[x][i + j] = z
    BY <1>5, <2>2, <2>7
  <2> QED
    BY <2>8 DEF y, z
<1>8. ASSUME NEW x \in S, NEW k \in 1 .. N - 1 PROVE A[x][k] # x
  <2>1. ~Congruent(x * f[k], x, m)
    BY DEF TurnsAround, f
  <2>2. Congruent(A[x][k], x * f[k], m) /\ k \in Nat
    BY <1>3
  <2> SUFFICES ASSUME A[x][k] = x PROVE FALSE
    OBVIOUS
  <2> DEFINE a == x * f[k]
  <2>3. a \in Int /\ x \in Int /\ Congruent(x, a, m)
    BY <1>1, <2>2
  <2> HIDE DEF a
  <2>4. Congruent(a, x, m)
    BY <2>3, CongruentBack
  <2> QED
    BY <2>1, <2>4 DEF a
<1> HIDE DEF S
<1>9. IsCycle(A, S, N)
  BY <1>4, <1>6, <1>7, <1>8 DEF IsCycle
<1> QED
  BY <1>9 DEF A, S

(* And N divides how many they are.                                        *)
LEMMA TurningDivides ==
  ASSUME NEW g \in Nat, NEW m \in Nat \ {0, 1}, NEW N \in Nat \ {0}, TurnsAround(g, m, N)
  PROVE  \E q \in Nat : m - 1 = N * q
<1> DEFINE a == 1
           b == m - 1
           S == a .. b
           A == Multiplied(g, m)
<1>1. a \in Int /\ b \in Int /\ ~(a > b) /\ b - a + 1 = m - 1
  OBVIOUS
<1>2. IsCycle(A, S, N)
  BY MultipliedIsCycle
<1> HIDE DEF a, b, A
<1>3. IsFiniteSet(S) /\ Cardinality(S) = m - 1
  BY <1>1, FS_Interval
<1> HIDE DEF S
<1>4. \E q \in Nat : Cardinality(S) = N * q
  BY <1>2, <1>3, CyclesDivide
<1> QED
  BY <1>3, <1>4

-----------------------------------------------------------------------------
(* No odd number m divides the power m - 1 of two, plus 1. *)
TwoTo == PowersOf(2)

(* The powers of two.                                                      *)
LEMMA TwoToIs ==
  /\ TwoTo[0] = 1
  /\ \A k \in Nat : TwoTo[k] \in Nat \ {0} /\ TwoTo[k + 1] = 2 * TwoTo[k]
<1> DEFINE two == 2
           f == PowersOf(two)
<1>1. f[0] = 1 /\ (\A k \in Nat : f[k + 1] = two * f[k]) /\ \A k \in Nat : f[k] \in Nat
  <2>1. two \in Nat
    OBVIOUS
  <2> HIDE DEF two
  <2> QED
    BY <2>1, PowersGoOn, PowersAreNumbers
<1>2. \A k \in Nat : PowerOfTwo[k] = f[k] /\ PowerOfTwo[k] # 0
  BY PowerOfTwoIs, PowersOfTwo
<1> QED
  BY <1>1, <1>2 DEF TwoTo

(* Their exponents are added in a product.                                 *)
LEMMA TwoToSum ==
  ASSUME NEW j \in Nat, NEW k \in Nat
  PROVE  TwoTo[j + k] = TwoTo[j] * TwoTo[k]
<1> DEFINE two == 2
<1>1. two \in Int
  OBVIOUS
<1> HIDE DEF two
<1>2. PowersOf(two)[j + k] = PowersOf(two)[j] * PowersOf(two)[k]
  BY <1>1, PowerOfSum
<1> QED
  BY <1>2 DEF TwoTo, two

(* And multiplied in a power.                                              *)
LEMMA TwoToPower ==
  ASSUME NEW j \in Nat, NEW k \in Nat
  PROVE  PowersOf(TwoTo[j])[k] = TwoTo[j * k]
<1> DEFINE two == 2
<1>1. two \in Int
  OBVIOUS
<1> HIDE DEF two
<1>2. PowersOf(PowersOf(two)[j])[k] = PowersOf(two)[j * k]
  BY <1>1, PowerOfPower
<1> QED
  BY <1>2 DEF TwoTo, two

(* Only zero is its own opposite modulo an odd number.                     *)
LEMMA OnlyZeroIsOpposite ==
  ASSUME NEW m \in Nat \ {0, 1}, m % 2 = 1, NEW x \in 1 .. m - 1, NEW y \in Int,
         Congruent(y, -x, m), Congruent(y, x, m)
  PROVE  FALSE
<1> DEFINE h == m \div 2
<1>1. h \in Nat /\ m = 2 * h + 1
  OBVIOUS
<1> HIDE DEF h
<1>2. PICK j \in Int : y = -x + m * j
  BY DEF Congruent
<1>3. PICK k \in Int : y = x + m * k
  BY DEF Congruent
<1>4. 2 * x = m * (j - k)
  <2>1. m * (j - k) = m * j - m * k /\ m * j \in Int /\ m * k \in Int
    OBVIOUS
  <2> QED
    BY <1>2, <1>3, <2>1
<1>5. x = m * (x - h * (j - k))
  <2>1. x = m * x - h * (2 * x)
    <3>1. (2 * h + 1) * x - h * (2 * x) = x
      BY <1>1
    <3> QED
      BY <1>1, <3>1
  <2>2. h * (m * (j - k)) = m * (h * (j - k))
    BY <1>1
  <2>3. m * (x - h * (j - k)) = m * x - m * (h * (j - k))
    BY <1>1
  <2> QED
    BY <1>4, <2>1, <2>2, <2>3
<1> DEFINE zero == 0
           l == x - h * (j - k)
<1>6. l \in Int /\ x = zero + m * l
  BY <1>1, <1>5
<1> HIDE DEF l
<1>7. Congruent(x, zero, m)
  BY <1>6 DEF Congruent
<1>8. x \in 0 .. m - 1 /\ zero \in 0 .. m - 1
  OBVIOUS
<1> HIDE DEF zero
<1>9. x = zero
  BY <1>7, <1>8, CongruentRemainders
<1> QED
  BY <1>9 DEF zero

(* A product with what is -1 is the opposite.                              *)
LEMMA TimesMinusOneModulo ==
  ASSUME NEW x \in Int, NEW a \in Int, NEW m \in Int, MinusOneModulo(a, m)
  PROVE  Congruent(x * a, -x, m)
<1>1. PICK j \in Int : a = -1 + m * j
  BY DEF MinusOneModulo, Congruent
<1>2. x * a = -x + m * (x * j) /\ x * j \in Int
  <2>1. x * (-1 + m * j) = -x + m * (x * j)
    OBVIOUS
  <2> QED
    BY <1>1, <2>1
<1> QED
  BY <1>2 DEF Congruent

(* When the power 2^r is -1, no power below 2^(r+1) leaves anything as it  *)
(* is: a power of the number of steps would be an odd multiple of 2^r.     *)
LEMMA NothingIsFixed ==
  ASSUME NEW g \in Nat, NEW m \in Nat \ {0, 1}, m % 2 = 1, NEW r \in Nat,
         MinusOneModulo(PowersOf(g)[TwoTo[r]], m),
         NEW x \in 1 .. m - 1, NEW k \in 1 .. TwoTo[r + 1] - 1
  PROVE  ~Congruent(x * PowersOf(g)[k], x, m)
<1> SUFFICES ASSUME Congruent(x * PowersOf(g)[k], x, m) PROVE FALSE
  OBVIOUS
<1>1. k \in Nat \ {0} /\ k < TwoTo[r + 1]
  BY TwoToIs
<1>2. PICK a \in Nat : \E b \in Nat : b % 2 = 1 /\ k = TwoTo[a] * b
  BY <1>1, EvenPartThereIs DEF TwoTo
<1>3. PICK b \in Nat : b % 2 = 1 /\ k = TwoTo[a] * b
  BY <1>2
<1>4. a <= r
  <2> SUFFICES ASSUME a > r PROVE FALSE
    OBVIOUS
  <2> DEFINE i == a - (r + 1)
             s == r + 1
  <2>1. i \in Nat /\ s \in Nat /\ a = s + i
    OBVIOUS
  <2> HIDE DEF i, s
  <2>2. TwoTo[s + i] = TwoTo[s] * TwoTo[i]
    BY <2>1, TwoToSum
  <2>3. TwoTo[s] \in Nat /\ TwoTo[i] \in Nat \ {0} /\ b \in Nat \ {0}
    BY <1>3, <2>1, TwoToIs
  <2> DEFINE t == TwoTo[s]
             u == TwoTo[i]
             v == u * b
  <2>4. v \in Nat \ {0}
    BY <2>3, Products
  <2>5. k = t * v
    <3>1. k = (t * u) * b
      BY <1>3, <2>1, <2>2
    <3>2. t \in Int /\ u \in Int
      BY <2>3
    <3> HIDE DEF t, u
    <3> QED
      BY <3>1, <3>2
  <2>6. t \in Nat
    BY <2>3
  <2> HIDE DEF v, t
  <2>7. t * v >= t
    <3>1. t * (v - 1) \in Nat
      BY <2>4, <2>6, Products
    <3>2. t * v = t + t * (v - 1)
      BY <2>4, <2>6
    <3> QED
      BY <2>6, <3>1, <3>2
  <2> QED
    BY <1>1, <2>5, <2>6, <2>7 DEF t, s
<1> DEFINE c == TwoTo[r - a]
           h == TwoTo[r]
           hb == h * b
           u == PowersOf(g)[h]
           w == PowersOf(g)[hb]
<1>5. c \in Nat /\ h \in Nat /\ k * c = hb /\ hb \in Nat
  <2> DEFINE i == r - a
  <2>1. i \in Nat /\ a + i = r
    BY <1>4
  <2> HIDE DEF i
  <2>2. TwoTo[a + i] = TwoTo[a] * TwoTo[i]
    BY <2>1, TwoToSum
  <2> DEFINE s == TwoTo[a]
             t == TwoTo[i]
  <2>3. s \in Nat /\ t \in Nat /\ h = s * t /\ k = s * b /\ h \in Nat
    BY <1>3, <2>1, <2>2, TwoToIs
  <2> HIDE DEF s, t, h
  <2>4. (s * b) * t = (s * t) * b
    BY <2>3
  <2>5. hb \in Nat
    BY <2>3, Products
  <2> QED
    BY <2>3, <2>4, <2>5 DEF t, i
<1>6. Congruent(x * w, x, m)
  <2> HIDE DEF c, hb
  <2>1. g \in Int /\ m \in Int /\ x \in Int /\ k \in Nat
    BY <1>1
  <2>2. Congruent(x * PowersOf(g)[k * c], x, m)
    BY <1>5, <2>1, FixedByPowers
  <2> QED
    BY <1>5, <2>2
<1>7. w \in Int /\ MinusOneModulo(w, m)
  <2> HIDE DEF h
  <2>1. u \in Int /\ MinusOneModulo(u, m)
    BY <1>5, PowersAreIntegers DEF h
  <2>2. PowersOf(u)[b] = w
    BY <1>5, PowerOfPower
  <2> HIDE DEF u, w
  <2>3. MinusOneModulo(PowersOf(u)[b], m)
    <3>1. m \in Int /\ b \in Nat /\ b % 2 = 1
      BY <1>3
    <3> QED
      BY <2>1, <3>1, OddPowersOfMinusOne
  <2>4. PowersOf(u)[b] \in Int
    BY <2>1, PowersAreIntegers
  <2> QED
    BY <2>2, <2>3, <2>4
<1> HIDE DEF w
<1>8. Congruent(x * w, -x, m)
  BY <1>7, TimesMinusOneModulo
<1> DEFINE y == x * w
<1>9. y \in Int /\ Congruent(y, -x, m) /\ Congruent(y, x, m)
  BY <1>6, <1>7, <1>8
<1> HIDE DEF y
<1> QED
  BY <1>9, OnlyZeroIsOpposite

(* So multiplying by g comes back after 2^(r+1) steps, and not before.     *)
LEMMA MinusOneTurns ==
  ASSUME NEW g \in Nat, NEW m \in Nat \ {0, 1}, m % 2 = 1, NEW r \in Nat,
         MinusOneModulo(PowersOf(g)[TwoTo[r]], m)
  PROVE  TurnsAround(g, m, TwoTo[r + 1])
<1> DEFINE h == TwoTo[r]
           u == PowersOf(g)[h]
<1>1. h \in Nat /\ TwoTo[r + 1] = 2 * h
  BY TwoToIs
<1>2. u \in Int /\ MinusOneModulo(u, m)
  <2> HIDE DEF h
  <2> QED
    BY <1>1, PowersAreIntegers DEF h
<1>3. PowersOf(g)[TwoTo[r + 1]] = u * u
  <2> HIDE DEF h
  <2>0. h \in Nat /\ g \in Int
    BY <1>1
  <2>1. PowersOf(g)[h + h] = PowersOf(g)[h] * PowersOf(g)[h]
    BY <2>0, PowerOfSum
  <2> QED
    BY <1>1, <2>1, h + h = 2 * h
<1> HIDE DEF u
<1>4. OneModulo(u * u, m)
  BY <1>2, SquareOfMinusOne
<1>5. \A x \in 1 .. m - 1 : \A k \in 1 .. TwoTo[r + 1] - 1 : ~Congruent(x * PowersOf(g)[k], x, m)
  BY NothingIsFixed
<1> QED
  BY <1>3, <1>4, <1>5 DEF TurnsAround

(* No odd number divides 2^(m-1) + 1: it would be 1 more than a multiple   *)
(* of a power of two that does not divide m - 1.                           *)
LEMMA TwoToIsNeverMinusOne ==
  ASSUME NEW m \in Nat \ {0, 1}, m % 2 = 1
  PROVE  ~MinusOneModulo(TwoTo[m - 1], m)
<1> SUFFICES ASSUME MinusOneModulo(TwoTo[m - 1], m) PROVE FALSE
  OBVIOUS
<1>1. m - 1 \in Nat \ {0}
  OBVIOUS
<1>2. PICK r \in Nat : \E d \in Nat : d % 2 = 1 /\ m - 1 = TwoTo[r] * d
  BY <1>1, EvenPartThereIs DEF TwoTo
<1>3. PICK d \in Nat : d % 2 = 1 /\ m - 1 = TwoTo[r] * d
  BY <1>2
<1> DEFINE g == TwoTo[d]
           h == TwoTo[r]
           N == TwoTo[r + 1]
<1>4. g \in Nat /\ h \in Nat \ {0} /\ N = 2 * h /\ N \in Nat \ {0}
  BY TwoToIs
<1>5. PowersOf(g)[h] = TwoTo[m - 1]
  <2> HIDE DEF h
  <2>1. PowersOf(TwoTo[d])[h] = TwoTo[d * h]
    BY <1>4, TwoToPower
  <2>2. d * h = m - 1
    BY <1>3, <1>4 DEF h
  <2> QED
    BY <2>1, <2>2
<1> HIDE DEF g
<1>6. TurnsAround(g, m, N)
  BY <1>4, <1>5, MinusOneTurns
<1> HIDE DEF h, N
<1>7. PICK q \in Nat : m - 1 = N * q
  BY <1>4, <1>6, TurningDivides
<1>8. h * d = (2 * h) * q
  BY <1>3, <1>4, <1>7 DEF h
<1>9. h * (d - 2 * q) = 0
  <2>1. h * (d - 2 * q) = h * d - (2 * h) * q
    BY <1>4
  <2> QED
    BY <1>4, <1>8, <2>1
<1>10. d - 2 * q = 0
  <2>1. CASE d - 2 * q > 0
    BY <1>4, <1>9, <2>1, Products
  <2>2. CASE d - 2 * q < 0
    <3>1. 2 * q - d \in Nat /\ h * (2 * q - d) = -(h * (d - 2 * q))
      BY <1>4, <2>2
    <3> QED
      BY <1>4, <1>9, <2>2, <3>1, Products
  <2> QED
    BY <2>1, <2>2
<1> QED
  BY <1>3, <1>10

-----------------------------------------------------------------------------
(* What a candidate that is accepted has passed. *)
(* n - 1 is 2^r * d; the witness a says that n may be prime.               *)
Witnessed(a, n, r, d) ==
  \/ OneModulo(PowersOf(a)[d], n)
  \/ \E i \in 0 .. r - 1 : MinusOneModulo(PowersOf(a)[d * TwoTo[i]], n)

(* A multiple is divided without a rest.                                   *)
LEMMA ExactDivision ==
  ASSUME NEW t \in Nat \ {0}, NEW c \in Nat
  PROVE  (t * c) \div t = c
<1> DEFINE x == t * c
<1>1. x \in Nat /\ x = t * c
  BY Products
<1> HIDE DEF x
<1>2. x \div t \in Nat /\ x % t \in Nat /\ x % t < t /\ x = t * (x \div t) + (x % t)
  BY <1>1, DivisionIs
<1> DEFINE q == x \div t
           s == x % t
<1>3. q \in Nat /\ s \in Nat /\ s < t /\ t * c = t * q + s
  BY <1>1, <1>2
<1> HIDE DEF q, s
<1>4. s = t * (c - q)
  BY <1>3
<1>5. ~(c - q >= 1)
  <2> SUFFICES ASSUME c - q >= 1 PROVE FALSE
    OBVIOUS
  <2>1. c - q - 1 \in Nat /\ t * (c - q - 1) \in Nat
    BY <1>3, Products
  <2>2. t * (c - q) = t + t * (c - q - 1)
    BY <1>3
  <2> QED
    BY <1>3, <1>4, <2>1, <2>2
<1>6. ~(c - q <= -1)
  <2> SUFFICES ASSUME c - q <= -1 PROVE FALSE
    OBVIOUS
  <2>1. q - c - 1 \in Nat /\ t * (q - c - 1) \in Nat
    BY <1>3, Products
  <2>2. t * (c - q) = -t - t * (q - c - 1)
    BY <1>3
  <2> QED
    BY <1>3, <1>4, <2>1, <2>2
<1> QED
  BY <1>1, <1>3, <1>5, <1>6 DEF q

(* What modPow returns of 1 and n - 1.                                     *)
LEMMA ModPowOne ==
  ASSUME NEW a \in Nat, NEW e \in Nat, NEW n \in Nat \ {0, 1}
  PROVE  /\ ModPow(a, e, n) = 1 <=> OneModulo(PowersOf(a)[e], n)
         /\ ModPow(a, e, n) = n - 1 <=> MinusOneModulo(PowersOf(a)[e], n)
<1> DEFINE one == 1
           minus == -1
           rest == n - 1
           p == PowersOf(a)[e]
<1>1. one \in 0 .. n - 1 /\ rest \in 0 .. n - 1 /\ minus \in Int /\ rest \in Int /\ p \in Int
  <2>1. p \in Int
    BY PowersAreIntegers
  <2> HIDE DEF p
  <2> QED
    BY <2>1
<1>2. Congruent(rest, minus, n) /\ Congruent(minus, rest, n)
  <2>1. rest = minus + n * 1 /\ minus = rest + n * (-1)
    OBVIOUS
  <2> QED
    BY <2>1 DEF Congruent
<1> HIDE DEF one, minus, rest
<1>3. ModPow(a, e, n) = one <=> Congruent(p, one, n)
  BY <1>1, ModPowIsRemainder
<1>4. ModPow(a, e, n) = rest <=> Congruent(p, rest, n)
  BY <1>1, ModPowIsRemainder
<1> HIDE DEF p
<1>5. Congruent(p, rest, n) <=> Congruent(p, minus, n)
  BY <1>1, <1>2, CongruentOver
<1> QED
  BY <1>3, <1>4, <1>5 DEF one, rest, minus, p, OneModulo, MinusOneModulo

(* WitnessLoop divides n - 1 by two as often as it can.                    *)
LEMMA WitnessMeans ==
  ASSUME NEW a \in Nat, NEW n \in Nat \ {0, 1}, n % 2 = 1
  PROVE  \E r \in Nat \ {0} : \E d \in Nat :
           /\ d % 2 = 1 /\ n - 1 = TwoTo[r] * d
           /\ WitnessLoop(a, n) <=> Witnessed(a, n, r, d)
<1> DEFINE F == CHOOSE f : IsTwos(f)
           r == F[n - 1]
           d == (n - 1) \div PowerOfTwo[r]
<1>1. WitnessLoop(a, n) <=>
        \/ ModPow(a, d, n) \in {1, n - 1}
        \/ \E i \in 1 .. r - 1 : ModPow(a, d * PowerOfTwo[i], n) = n - 1
  BY Zenon DEF WitnessLoop, IsTwos
<1>2. IsTwos(F)
  BY TwosExist, Zenon
<1> HIDE DEF F
<1>3. n - 1 \in Nat \ {0} /\ (n - 1) % 2 = 0
  OBVIOUS
<1>4. r \in Nat /\ \E c \in Nat : c % 2 = 1 /\ n - 1 = PowersOf(2)[r] * c
  BY <1>2, <1>3, TwosTaken
<1>5. PICK c \in Nat : c % 2 = 1 /\ n - 1 = TwoTo[r] * c
  BY <1>4 DEF TwoTo
<1>6. r # 0
  <2>1. r = 0 => n - 1 = c
    BY <1>5, TwoToIs
  <2> QED
    BY <1>3, <1>5, <2>1
<1>7. \A k \in Nat : PowerOfTwo[k] = TwoTo[k]
  BY PowerOfTwoIs DEF TwoTo
<1>8. d = c
  <2> DEFINE t == TwoTo[r]
  <2>1. t \in Nat \ {0} /\ n - 1 = t * c /\ d = (n - 1) \div t
    BY <1>4, <1>5, <1>7, TwoToIs
  <2> HIDE DEF t, d, r
  <2>2. (t * c) \div t = c
    BY <2>1, ExactDivision
  <2> QED
    BY <2>1, <2>2
<1> HIDE DEF d, r
<1>9. ASSUME NEW i \in 0 .. r - 1
      PROVE  ModPow(a, c * TwoTo[i], n) = n - 1 <=> MinusOneModulo(PowersOf(a)[c * TwoTo[i]], n)
  <2>1. i \in Nat
    BY <1>4
  <2> DEFINE e == c * TwoTo[i]
  <2>2. e \in Nat
    <3>1. TwoTo[i] \in Nat
      BY <2>1, TwoToIs
    <3> QED
      BY <3>1, Products
  <2> HIDE DEF e
  <2>3. ModPow(a, e, n) = n - 1 <=> MinusOneModulo(PowersOf(a)[e], n)
    BY <2>2, ModPowOne
  <2> QED
    BY <2>3 DEF e
<1>10. c * TwoTo[0] = c /\ 0 \in 0 .. r - 1
  BY <1>4, <1>6, TwoToIs
<1>11. ModPow(a, c, n) = 1 <=> OneModulo(PowersOf(a)[c], n)
  BY ModPowOne
<1>12. ModPow(a, c, n) = n - 1 <=> MinusOneModulo(PowersOf(a)[c * TwoTo[0]], n)
  BY <1>9, <1>10
<1>13. (\E i \in 1 .. r - 1 : ModPow(a, d * PowerOfTwo[i], n) = n - 1)
         <=> \E i \in 1 .. r - 1 : MinusOneModulo(PowersOf(a)[c * TwoTo[i]], n)
  <2>1. ASSUME NEW i \in 1 .. r - 1
        PROVE  ModPow(a, d * PowerOfTwo[i], n) = n - 1
                 <=> MinusOneModulo(PowersOf(a)[c * TwoTo[i]], n)
    <3>1. i \in Nat /\ i \in 0 .. r - 1
      BY <1>4
    <3>2. d * PowerOfTwo[i] = c * TwoTo[i]
      BY <1>7, <1>8, <3>1
    <3> QED
      BY <1>9, <3>1, <3>2
  <2> QED
    BY <2>1
<1>14. WitnessLoop(a, n) <=> Witnessed(a, n, r, c)
  <2> DEFINE M(i) == MinusOneModulo(PowersOf(a)[c * TwoTo[i]], n)
             One == OneModulo(PowersOf(a)[c], n)
  <2>1. WitnessLoop(a, n) <=> One \/ M(0) \/ \E i \in 1 .. r - 1 : M(i)
    BY <1>1, <1>8, <1>11, <1>12, <1>13
  <2>2. (\E i \in 0 .. r - 1 : M(i)) <=> M(0) \/ \E i \in 1 .. r - 1 : M(i)
    <3> HIDE DEF M
    <3>1. \A i \in 0 .. r - 1 : i = 0 \/ i \in 1 .. r - 1
      BY <1>4
    <3>2. \A i \in 1 .. r - 1 : i \in 0 .. r - 1
      BY <1>4
    <3> QED
      BY <1>10, <3>1, <3>2
  <2>3. Witnessed(a, n, r, c) <=> One \/ \E i \in 0 .. r - 1 : M(i)
    BY DEF Witnessed
  <2> HIDE DEF M, One
  <2> QED
    BY <2>1, <2>2, <2>3
<1> QED
  BY <1>4, <1>5, <1>6, <1>14

(* A power of two that is 1 is 1 in all its powers.                        *)
LEMMA TwoToRaised ==
  ASSUME NEW e \in Nat, NEW c \in Nat, NEW m \in Int, OneModulo(TwoTo[e], m)
  PROVE  OneModulo(TwoTo[e * c], m)
<1> DEFINE u == TwoTo[e]
<1>1. u \in Int /\ OneModulo(u, m)
  BY TwoToIs
<1>2. PowersOf(u)[c] = TwoTo[e * c]
  BY TwoToPower
<1> HIDE DEF u
<1>3. OneModulo(PowersOf(u)[c], m)
  BY <1>1, PowersOfOneModulo
<1> QED
  BY <1>2, <1>3

(* The witness 4 tells that the power n - 1 of two is 1.                   *)
LEMMA FourWitnesses ==
  ASSUME NEW n \in Nat \ {0, 1}, n % 2 = 1, WitnessLoop(4, n)
  PROVE  OneModulo(TwoTo[n - 1], n)
<1> DEFINE four == 4
<1>1. four \in Nat /\ WitnessLoop(four, n) /\ four = TwoTo[2]
  <2>1. TwoTo[0 + 1] = 2 * TwoTo[0] /\ TwoTo[1 + 1] = 2 * TwoTo[1]
    BY TwoToIs
  <2>2. TwoTo[2] = 4
    BY <2>1, TwoToIs
  <2> QED
    BY <2>2
<1> HIDE DEF four
<1>2. PICK r \in Nat \ {0} : \E d \in Nat :
        /\ d % 2 = 1 /\ n - 1 = TwoTo[r] * d
        /\ WitnessLoop(four, n) <=> Witnessed(four, n, r, d)
  BY <1>1, WitnessMeans
<1>3. PICK d \in Nat : /\ d % 2 = 1 /\ n - 1 = TwoTo[r] * d
                       /\ WitnessLoop(four, n) <=> Witnessed(four, n, r, d)
  BY <1>2
<1>4. Witnessed(four, n, r, d) /\ n - 1 = TwoTo[r] * d
  BY <1>1, <1>3
<1>5. ASSUME NEW e \in Nat PROVE PowersOf(four)[e] = TwoTo[2 * e]
  BY <1>1, TwoToPower
<1>6. ASSUME NEW i \in 0 .. r PROVE i \in Nat /\ TwoTo[r] = TwoTo[i] * TwoTo[r - i] /\ r - i \in Nat
  <2> DEFINE j == r - i
  <2>1. i \in Nat /\ j \in Nat /\ r = i + j
    OBVIOUS
  <2> HIDE DEF j
  <2>2. TwoTo[i + j] = TwoTo[i] * TwoTo[j]
    BY <2>1, TwoToSum
  <2> QED
    BY <2>1, <2>2 DEF j
<1>7. ASSUME NEW i \in 0 .. r, OneModulo(TwoTo[d * TwoTo[i]], n)
      PROVE  OneModulo(TwoTo[n - 1], n)
  <2> DEFINE s == TwoTo[i]
             t == TwoTo[r - i]
             e == d * s
  <2>1. s \in Nat /\ t \in Nat /\ TwoTo[r] = s * t
    BY <1>6, TwoToIs
  <2> HIDE DEF s, t
  <2>2. n - 1 = e * t
    <3>1. (s * t) * d = (d * s) * t
      BY <2>1
    <3> QED
      BY <1>4, <2>1, <3>1
  <2>3. e \in Nat /\ OneModulo(TwoTo[e], n) /\ n \in Int
    BY <1>7, <2>1, Products DEF s
  <2> HIDE DEF e
  <2>4. OneModulo(TwoTo[e * t], n)
    BY <2>1, <2>3, TwoToRaised
  <2> QED
    BY <2>2, <2>4
<1>8. CASE OneModulo(PowersOf(four)[d], n)
  <2>1. OneModulo(TwoTo[2 * d], n)
    BY <1>5, <1>8
  <2>2. TwoTo[1] = 2 /\ 1 \in 0 .. r
    <3>1. TwoTo[0 + 1] = 2 * TwoTo[0]
      BY TwoToIs
    <3> QED
      BY <3>1, TwoToIs
  <2>3. 2 * d = d * TwoTo[1]
    BY <2>2
  <2> QED
    BY <1>7, <2>1, <2>2, <2>3
<1>9. ASSUME NEW i \in 0 .. r - 1, MinusOneModulo(PowersOf(four)[d * TwoTo[i]], n)
      PROVE  OneModulo(TwoTo[n - 1], n)
  <2> DEFINE s == TwoTo[i]
             k == i + 1
             e == d * TwoTo[k]
  <2>1. i \in Nat /\ k \in 1 .. r /\ k \in Nat /\ s \in Nat /\ TwoTo[k] = 2 * s /\ TwoTo[k] \in Nat
    BY TwoToIs
  <2>2. e \in Nat
    BY <2>1, Products
  <2>3. MinusOneModulo(TwoTo[e], n)
    <3>1. d * s \in Nat
      BY <2>1, Products
    <3>2. PowersOf(four)[d * s] = TwoTo[2 * (d * s)]
      BY <1>5, <3>1
    <3>3. 2 * (d * s) = e
      <4> HIDE DEF s
      <4>1. 2 * (d * s) = d * (2 * s)
        BY <2>1
      <4> QED
        BY <2>1, <4>1
    <3> QED
      BY <1>9, <3>2, <3>3
  <2>4. k # r
    <3> SUFFICES ASSUME k = r PROVE FALSE
      OBVIOUS
    <3>1. e = n - 1
      <4>1. e = d * TwoTo[r] /\ TwoTo[r] \in Nat
        BY <2>1
      <4> QED
        BY <1>4, <4>1
    <3>2. MinusOneModulo(TwoTo[n - 1], n)
      BY <2>3, <3>1
    <3> QED
      BY <3>2, TwoToIsNeverMinusOne
  <2> DEFINE u == TwoTo[e]
             l == k + 1
  <2>5. u \in Int /\ MinusOneModulo(u, n)
    BY <2>2, <2>3, TwoToIs
  <2>6. OneModulo(TwoTo[e + e], n)
    <3>1. TwoTo[e + e] = u * u
      <4> HIDE DEF e
      <4> QED
        BY <2>2, TwoToSum
    <3> HIDE DEF u
    <3>2. OneModulo(u * u, n)
      BY <2>5, SquareOfMinusOne
    <3> QED
      BY <3>1, <3>2
  <2>7. l \in 0 .. r /\ TwoTo[l] = 2 * TwoTo[k]
    <3> HIDE DEF k
    <3> QED
      BY <2>1, <2>4, TwoToIs
  <2>8. e + e = d * TwoTo[l]
    <3> DEFINE t == TwoTo[k]
    <3>1. t \in Nat /\ TwoTo[l] = 2 * t /\ e = d * t
      BY <2>1, <2>7
    <3> HIDE DEF t, e
    <3>2. d * t + d * t = d * (2 * t)
      BY <3>1
    <3> QED
      BY <3>1, <3>2
  <2> HIDE DEF e, l
  <2> QED
    BY <1>7, <2>6, <2>7, <2>8
<1> QED
  BY <1>4, <1>8, <1>9 DEF Witnessed

(* So it is 1 for every candidate that is accepted.                        *)
LEMMA AcceptedIsFermat ==
  ASSUME NEW n \in Nat, n % 2 = 1, Accepted(n)
  PROVE  n \in Nat \ {0, 1} /\ OneModulo(TwoTo[n - 1], n)
<1>1. n \in Nat \ {0, 1}
  BY AcceptedIsTwoOrMore
<1>2. MillerRabinTest(n, TestRounds, {})
  BY DEF Accepted
<1>3. CASE n = 3
  <2>1. TwoTo[0 + 1] = 2 * TwoTo[0] /\ TwoTo[1 + 1] = 2 * TwoTo[1]
    BY TwoToIs
  <2>2. TwoTo[n - 1] = 1 + n * 1
    BY <1>3, <2>1, TwoToIs
  <2> QED
    BY <1>1, <2>2 DEF OneModulo, Congruent
<1>4. CASE n # 3
  <2>1. ~(n <= 1 \/ n = 4) /\ n \notin {2, 3} /\ n >= 5
    BY <1>1, <1>4
  <2>2. \A a \in Witnesses(n, TestRounds, {}) : WitnessLoop(a, n)
    BY <1>2, <2>1 DEF MillerRabinTest
  <2>3. 4 \in Witnesses(n, TestRounds, {})
    <3> DEFINE k == IF TestRounds < 12 THEN TestRounds ELSE 12
    <3>1. 1 \in 1 .. k
      BY SizeAssumption
    <3>2. WitnessPrimes[1] = 2
      BY DEF WitnessPrimes
    <3>3. (2 % (n - 2)) + 2 = 4
      BY <2>1
    <3> HIDE DEF k
    <3>4. 4 \in {(WitnessPrimes[i] % (n - 2)) + 2 : i \in 1 .. k}
      <4>1. 4 = (WitnessPrimes[1] % (n - 2)) + 2
        BY <3>2, <3>3
      <4> QED
        BY <3>1, <4>1
    <3> QED
      BY <3>4 DEF Witnesses, k
  <2> QED
    BY <1>1, <2>2, <2>3, FourWitnesses
<1> QED
  BY <1>1, <1>3, <1>4

(* Candidates are odd.                                                     *)
LEMMA CandidatesAreOdd ==
  ASSUME NEW draw \in Nat, NEW numBits \in Nat \ {0}
  PROVE  Candidate(draw, numBits) \in Nat /\ Candidate(draw, numBits) % 2 = 1
<1> DEFINE x == WithBit(draw, PowerOfTwo[numBits - 1])
<1>1. PowerOfTwo[numBits - 1] \in Nat
  BY PowersOfTwo
<1>2. x \in Nat
  BY <1>1 DEF WithBit
<1> HIDE DEF x
<1>3. WithBit(x, 1) \in Nat /\ WithBit(x, 1) % 2 = 1
  BY <1>2 DEF WithBit
<1> QED
  BY <1>3 DEF Candidate, x

-----------------------------------------------------------------------------
(* What gcd, lcm and modInverse compute. *)
Divides(d, a) == \E j \in Nat : a = d * j

(* One round of gcd: the divisors of <<y, x % y>> are those of <<x, y>>.   *)
LEMMA DividesRound ==
  ASSUME NEW x \in Nat, NEW y \in Nat \ {0}, NEW d \in Nat
  PROVE  /\ Divides(d, x) /\ Divides(d, y) => Divides(d, x % y)
         /\ Divides(d, y) /\ Divides(d, x % y) => Divides(d, x)
<1> DEFINE q == x \div y
           r == x % y
<1>1. q \in Nat /\ r \in Nat /\ x = y * q + r
  BY DivisionIs
<1> HIDE DEF q, r
<1>2. ASSUME Divides(d, y), Divides(d, r) PROVE Divides(d, x)
  <2>1. PICK i \in Nat : y = d * i
    BY <1>2 DEF Divides
  <2>2. PICK j \in Nat : r = d * j
    BY <1>2 DEF Divides
  <2>3. (d * i) * q + d * j = d * (i * q + j)
    BY <1>1
  <2>4. x = d * (i * q + j)
    BY <1>1, <2>1, <2>2, <2>3
  <2>5. i * q + j \in Nat
    BY <1>1, Products
  <2> QED
    BY <2>4, <2>5 DEF Divides
<1>3. ASSUME Divides(d, x), Divides(d, y) PROVE Divides(d, r)
  <2>1. PICK i \in Nat : x = d * i
    BY <1>3 DEF Divides
  <2>2. PICK j \in Nat : y = d * j
    BY <1>3 DEF Divides
  <2> DEFINE k == i - j * q
  <2>3. r = d * k /\ k \in Int
    <3>1. d * (i - j * q) = d * i - (d * j) * q
      BY <1>1
    <3> QED
      BY <1>1, <2>1, <2>2, <3>1
  <2>4. d # 0
    BY <2>2
  <2> HIDE DEF k
  <2>5. k \in Nat
    <3> SUFFICES ASSUME k < 0 PROVE FALSE
      BY <2>3
    <3>1. -k - 1 \in Nat /\ d * (-k - 1) \in Nat
      BY <2>3, Products
    <3>2. d * k = -d - d * (-k - 1)
      BY <2>3
    <3> QED
      BY <1>1, <2>3, <2>4, <3>1, <3>2
  <2> QED
    BY <2>3, <2>5 DEF Divides
<1> QED
  BY <1>2, <1>3 DEF r

CommonDivisor(g, x, y) ==
  /\ Divides(g, x) /\ Divides(g, y)
  /\ \A d \in Nat : Divides(d, x) /\ Divides(d, y) => Divides(d, g)

(* gcd divides both numbers, and every common divisor divides it.          *)
LEMMA GcdComputes ==
  ASSUME NEW a \in Nat \ {0}, NEW b \in Nat
  PROVE  CommonDivisor(Gcd(a, b), a, b)
<1>1. PICK f : IsGcdLoop(f) /\ \A x, y : Gcd(x, y) = f[<<x, y>>]
  BY GcdByDefinition
<1> DEFINE P == {y \in Nat : \A x \in Nat \ {0} :
                   f[<<x, y>>] \in Nat /\ CommonDivisor(f[<<x, y>>], x, y)}
<1>2. ASSUME NEW y \in Nat, \A k \in 0 .. y - 1 : k \in P PROVE y \in P
  <2> SUFFICES ASSUME NEW x \in Nat \ {0}
               PROVE  f[<<x, y>>] \in Nat /\ CommonDivisor(f[<<x, y>>], x, y)
    OBVIOUS
  <2>1. f[<<x, y>>] = IF y = 0 THEN x ELSE f[<<y, x % y>>]
    <3> DEFINE s == <<x, y>>
    <3>1. s \in Nat \X Nat /\ s[1] = x /\ s[2] = y
      OBVIOUS
    <3> HIDE DEF s
    <3>2. f[s] = IF s[2] = 0 THEN s[1] ELSE f[<<s[2], s[1] % s[2]>>]
      BY <1>1, <3>1, Zenon DEF IsGcdLoop
    <3> QED
      BY <3>1, <3>2 DEF s
  <2>2. CASE y = 0
    <3>1. x = x * 1 /\ y = x * 0
      BY <2>2
    <3>2. Divides(x, x) /\ Divides(x, y)
      BY <3>1 DEF Divides
    <3>3. f[<<x, y>>] = x
      BY <2>1, <2>2
    <3> HIDE DEF P
    <3> QED
      BY <3>2, <3>3 DEF CommonDivisor
  <2>3. CASE y # 0
    <3> DEFINE r == x % y
               g == f[<<y, r>>]
    <3>1. r \in 0 .. y - 1 /\ y \in Nat \ {0}
      BY <2>3, DivisionIs
    <3>2. g \in Nat /\ CommonDivisor(g, y, r)
      <4>1. r \in P
        BY <1>2, <3>1
      <4> HIDE DEF r
      <4> QED
        BY <3>1, <4>1
    <3>3. f[<<x, y>>] = g
      BY <2>1, <2>3
    <3> HIDE DEF P, g
    <3>4. \A d \in Nat : /\ Divides(d, x) /\ Divides(d, y) => Divides(d, r)
                         /\ Divides(d, y) /\ Divides(d, r) => Divides(d, x)
      BY <3>1, DividesRound
    <3> HIDE DEF r
    <3>5. CommonDivisor(g, x, y)
      BY <3>2, <3>4 DEF CommonDivisor
    <3> QED
      BY <3>2, <3>3, <3>5
  <2> QED
    BY <2>2, <2>3
<1> HIDE DEF P
<1>3. \A y \in Nat : y \in P
  BY <1>2, StrongInduction
<1> QED
  BY <1>1, <1>3 DEF P

(* lcm is a multiple of both numbers.                                      *)
LEMMA LcmComputes ==
  ASSUME NEW a \in Nat \ {0}, NEW b \in Nat \ {0}
  PROVE  Lcm(a, b) \in Nat /\ Divides(a, Lcm(a, b)) /\ Divides(b, Lcm(a, b))
<1> DEFINE g == Gcd(a, b)
<1>1. g \in Nat \ {0} /\ Divides(g, a) /\ Divides(g, b)
  BY GcdIs, GcdComputes DEF CommonDivisor
<1>2. PICK i \in Nat : a = g * i
  BY <1>1 DEF Divides
<1>3. PICK j \in Nat : b = g * j
  BY <1>1 DEF Divides
<1>4. Lcm(a, b) = (a * b) \div g
  BY DEF Lcm
<1> HIDE DEF g
<1> DEFINE l == a * j
<1>5. a * b = g * l /\ l \in Nat /\ l = b * i
  <2>1. a * (g * j) = g * (a * j) /\ (g * i) * j = (g * j) * i
    BY <1>1
  <2>2. l \in Nat
    BY Products
  <2> QED
    BY <1>2, <1>3, <2>1, <2>2
<1> HIDE DEF l
<1>6. (g * l) \div g = l
  BY <1>1, <1>5, ExactDivision
<1>7. Lcm(a, b) = l
  BY <1>4, <1>5, <1>6
<1> QED
  BY <1>5, <1>7 DEF Divides, l

-----------------------------------------------------------------------------
(* The coefficients of the loop of modInverse: a is what is inverted.      *)
Inverting(s, a, m) ==
  s[1] # 0 /\ Congruent(a * s[4], s[1], m) /\ Congruent(a * s[3], s[2], m)

(* A round keeps them so.                                                  *)
LEMMA InvertingKept ==
  ASSUME NEW m \in Nat, NEW a \in Nat, NEW s \in InverseStates, Inverting(s, a, m), s[2] # 0
  PROVE  Inverting(InverseStep(s), a, m)
<1> DEFINE b == s[1]
           c == s[2]
           x == s[3]
           y == s[4]
           q == s[1] \div s[2]
           r == s[1] % s[2]
           t == InverseStep(s)
<1>1. b \in Nat /\ c \in Nat \ {0} /\ x \in Int /\ y \in Int
  BY DEF InverseStates
<1>2. q \in Nat /\ r \in Nat /\ b = c * q + r
  BY <1>1, DivisionIs
<1>3. t[1] = c /\ t[2] = r /\ t[3] = y - q * x /\ t[4] = x
  BY InverseStepIs
<1>4. Congruent(a * y, b, m) /\ Congruent(a * x, c, m)
  BY DEF Inverting
<1> HIDE DEF b, c, x, y, q, r, t
<1>5. PICK i \in Int : a * y = b + m * i
  BY <1>4 DEF Congruent
<1>6. PICK j \in Int : a * x = c + m * j
  BY <1>4 DEF Congruent
<1> DEFINE l == i - q * j
<1>7. a * (y - q * x) = r + m * l /\ l \in Int
  <2>1. a * (y - q * x) = a * y - q * (a * x)
    BY <1>1, <1>2
  <2>2. (b + m * i) - q * (c + m * j) = (b - c * q) + m * (i - q * j)
    BY <1>1, <1>2
  <2>3. l \in Int
    BY <1>2
  <2> HIDE DEF l
  <2>4. b - c * q = r
    BY <1>1, <1>2
  <2> QED
    BY <1>5, <1>6, <2>1, <2>2, <2>3, <2>4 DEF l
<1> HIDE DEF l
<1>8. Congruent(a * (y - q * x), r, m)
  BY <1>7 DEF Congruent
<1>9. Inverting(t, a, m)
  BY <1>1, <1>3, <1>4, <1>8 DEF Inverting
<1> QED
  BY <1>9 DEF t

IsInverse(a, x, m) == x = DivisionByZero \/ OneModulo(a * x, m)

(* modInverse inverts, unless it has divided by zero.                      *)
LEMMA InverseComputes ==
  ASSUME NEW a \in Nat \ {0}, NEW m \in Nat \ {0, 1}
  PROVE  IsInverse(a, ModInverse(a, m), m)
<1>1. PICK f : IsInverseLoop(f, m) /\ ModInverse(a, m) = IF m = 1 THEN 0 ELSE f[<<a, m, 0, 1>>]
  BY InverseByDefinition
<1> DEFINE P == {k \in Nat : \A s \in InverseStates :
                   s[2] = k /\ Inverting(s, a, m) => IsInverse(a, f[s], m)}
<1>2. ASSUME NEW k \in Nat, \A l \in 0 .. k - 1 : l \in P PROVE k \in P
  <2> SUFFICES ASSUME NEW s \in InverseStates, s[2] = k, Inverting(s, a, m)
               PROVE  IsInverse(a, f[s], m)
    OBVIOUS
  <2>1. f[s] = IF s[1] <= 1 THEN Inverted(s, m)
               ELSE IF s[2] = 0 THEN DivisionByZero ELSE f[InverseStep(s)]
    BY <1>1, Zenon DEF IsInverseLoop
  <2>2. s[1] \in Nat \ {0} /\ s[2] \in Nat /\ s[4] \in Int
    BY DEF InverseStates, Inverting
  <2>3. ASSUME s[1] <= 1 PROVE OneModulo(a * Inverted(s, m), m)
    <3> DEFINE y == s[4]
    <3>1. s[1] = 1 /\ y \in Int
      BY <2>2, <2>3
    <3>2. Congruent(a * y, 1, m)
      BY <3>1 DEF Inverting
    <3>3. Inverted(s, m) = IF y < 0 THEN y + m ELSE y
      BY DEF Inverted
    <3> HIDE DEF y
    <3>4. PICK j \in Int : a * y = 1 + m * j
      BY <3>2 DEF Congruent
    <3>5. a * (y + m) = 1 + m * (j + a) /\ j + a \in Int
      <4>1. a * (y + m) = a * y + m * a
        BY <3>1
      <4>2. m * (j + a) = m * j + m * a
        OBVIOUS
      <4> QED
        BY <3>4, <4>1, <4>2
    <3>6. Congruent(a * (y + m), 1, m)
      BY <3>5 DEF Congruent
    <3> QED
      BY <3>2, <3>3, <3>6 DEF OneModulo
  <2>4. ASSUME ~(s[1] <= 1), s[2] # 0 PROVE IsInverse(a, f[InverseStep(s)], m)
    <3> DEFINE t == InverseStep(s)
    <3>1. t \in InverseStates /\ t[2] \in 0 .. k - 1 /\ Inverting(t, a, m)
      BY <2>2, <2>4, InverseStepIs, InvertingKept
    <3> HIDE DEF t
    <3>2. IsInverse(a, f[t], m)
      BY <1>2, <3>1
    <3> QED
      BY <3>2 DEF t
  <2> QED
    BY <2>1, <2>3, <2>4 DEF IsInverse
<1> HIDE DEF P
<1>3. \A k \in Nat : k \in P
  BY <1>2, StrongInduction
<1> DEFINE s == <<a, m, 0, 1>>
<1>4. s \in InverseStates /\ s[2] = m /\ Inverting(s, a, m)
  <2>1. Congruent(a * 1, a, m)
    <3>1. a * 1 = a /\ Congruent(a, a, m)
      BY CongruentToItself
    <3> QED
      BY <3>1
  <2>2. Congruent(a * 0, m, m)
    <3>1. a * 0 = m + m * (-1)
      OBVIOUS
    <3> QED
      BY <3>1 DEF Congruent
  <2> QED
    BY <2>1, <2>2 DEF InverseStates, Inverting
<1> HIDE DEF s
<1>5. IsInverse(a, f[s], m)
  BY <1>3, <1>4 DEF P
<1> QED
  BY <1>1, <1>5 DEF s

-----------------------------------------------------------------------------
(* Powers modulo a square, and modulo a product. *)
(* Of the powers of 1 + n * x only two terms are left modulo n * n.        *)
LEMMA PowersOfOneMore ==
  ASSUME NEW n \in Int, NEW x \in Int, NEW k \in Nat
  PROVE  Congruent(PowersOf(1 + n * x)[k], 1 + n * (x * k), n * n)
<1> DEFINE b == 1 + n * x
           f == PowersOf(b)
           P == {l \in Nat : \E j \in Int : f[l] = (1 + n * (x * l)) + (n * n) * j}
<1>1. b \in Int
  OBVIOUS
<1>2. f[0] = 1 /\ \A l \in Nat : f[l + 1] = b * f[l]
  <2> HIDE DEF b
  <2> QED
    BY <1>1, PowersGoOn
<1> SUFFICES Congruent(f[k], 1 + n * (x * k), n * n)
  OBVIOUS
<1> HIDE DEF f
<1>3. 0 \in P
  <2>1. f[0] = (1 + n * (x * 0)) + (n * n) * 0
    BY <1>2
  <2> QED
    BY <2>1
<1>4. ASSUME NEW l \in Nat, l \in P PROVE l + 1 \in P
  <2>1. PICK j \in Int : f[l] = (1 + n * (x * l)) + (n * n) * j
    BY <1>4
  <2> DEFINE i == j + x * (x * l) + n * (x * j)
  <2>2. (1 + n * x) * ((1 + n * (x * l)) + (n * n) * j) = (1 + n * (x * (l + 1))) + (n * n) * i
    OBVIOUS
  <2>3. f[l + 1] = (1 + n * (x * (l + 1))) + (n * n) * i /\ i \in Int
    BY <1>2, <2>1, <2>2
  <2> HIDE DEF i
  <2> QED
    BY <2>3
<1> HIDE DEF P
<1>5. \A l \in Nat : l \in P
  BY <1>3, <1>4, NumbersInduction
<1>6. \E j \in Int : f[k] = (1 + n * (x * k)) + (n * n) * j
  BY <1>5 DEF P
<1> QED
  BY <1>6 DEF Congruent

(* What is 1 modulo p and modulo q has a power p * q that is 1 modulo the  *)
(* product, even if p and q have a divisor in common: v^k - 1 is (v - 1)   *)
(* times something congruent to k.                                         *)
LEMMA PowersOfBoth ==
  ASSUME NEW p \in Nat, NEW q \in Nat, NEW v \in Nat, OneModulo(v, p), OneModulo(v, q)
  PROVE  OneModulo(PowersOf(v)[p * q], p * q)
<1> DEFINE f == PowersOf(v)
           P == {k \in Nat : \E s \in Int : f[k] = 1 + (v - 1) * s /\ Congruent(s, k, q)}
<1>1. f[0] = 1 /\ (\A l \in Nat : f[l + 1] = v * f[l]) /\ \A l \in Nat : f[l] \in Int
  BY PowersGoOn, PowersAreIntegers
<1>2. \A l \in Nat : OneModulo(f[l], q)
  BY PowersOfOneModulo
<1> SUFFICES OneModulo(f[p * q], p * q)
  OBVIOUS
<1> HIDE DEF f
<1>3. 0 \in P
  <2>1. f[0] = 1 + (v - 1) * 0 /\ 0 = 0 + q * 0
    BY <1>1
  <2>2. Congruent(0, 0, q)
    BY <2>1 DEF Congruent
  <2> QED
    BY <2>1, <2>2
<1>4. ASSUME NEW k \in Nat, k \in P PROVE k + 1 \in P
  <2>1. PICK s \in Int : f[k] = 1 + (v - 1) * s /\ Congruent(s, k, q)
    BY <1>4
  <2> DEFINE u == f[k]
  <2>2. u \in Int /\ OneModulo(u, q) /\ f[k + 1] = v * u /\ u = 1 + (v - 1) * s
    BY <1>1, <1>2, <2>1
  <2> HIDE DEF u
  <2>3. v * u = 1 + (v - 1) * (s + u)
    <3>1. (v - 1) * (s + u) = (v - 1) * s + (v * u - u)
      BY <2>2
    <3> QED
      BY <2>2, <3>1
  <2>4. Congruent(s + u, k + 1, q)
    <3> DEFINE one == 1
    <3>1. Congruent(u, one, q) /\ one \in Int
      BY <2>2 DEF OneModulo
    <3> HIDE DEF one
    <3>2. Congruent(s + u, k + one, q)
      BY <2>1, <2>2, <3>1, CongruentSums
    <3> QED
      BY <3>2 DEF one
  <2>5. s + u \in Int
    BY <2>2
  <2> QED
    BY <2>2, <2>3, <2>4, <2>5
<1> HIDE DEF P
<1>5. \A k \in Nat : k \in P
  BY <1>3, <1>4, NumbersInduction
<1>6. p * q \in Nat
  BY Products
<1>7. PICK s \in Int : f[p * q] = 1 + (v - 1) * s /\ Congruent(s, p * q, q)
  BY <1>5, <1>6 DEF P
<1>8. PICK i \in Int : v = 1 + p * i
  BY DEF OneModulo, Congruent
<1>9. PICK j \in Int : s = p * q + q * j
  BY <1>7 DEF Congruent
<1> DEFINE l == i * (p + j)
<1>10. (v - 1) * s = (p * q) * l /\ l \in Int
  <2>1. (p * i) * (p * q + q * j) = (p * q) * (i * (p + j))
    OBVIOUS
  <2>2. v - 1 = p * i
    BY <1>8
  <2> QED
    BY <1>9, <2>1, <2>2
<1> HIDE DEF l
<1>11. f[p * q] = 1 + (p * q) * l
  BY <1>7, <1>10
<1> QED
  BY <1>10, <1>11 DEF OneModulo, Congruent

-----------------------------------------------------------------------------
(* Paillier encryption. *)

(* What is above n in a plaintext makes no difference modulo n * n.        *)
LEMMA PlainReduced ==
  ASSUME NEW n \in Nat \ {0}, NEW y \in Nat
  PROVE  Congruent(1 + n * y, 1 + n * (y % n), n * n)
<1> DEFINE q == y \div n
           r == y % n
<1>1. q \in Nat /\ r \in Nat /\ y = n * q + r
  BY DivisionIs
<1> HIDE DEF q, r
<1>2. 1 + n * (n * q + r) = (1 + n * r) + (n * n) * q
  BY <1>1
<1>3. 1 + n * y = (1 + n * r) + (n * n) * q
  BY <1>1, <1>2
<1>4. Congruent(1 + n * y, 1 + n * r, n * n)
  BY <1>1, <1>3 DEF Congruent
<1> QED
  BY <1>4 DEF r

(* A square is a modulus, and 1 + n * y is a remainder if y is one.        *)
LEMMA SquareIs ==
  ASSUME NEW n \in Nat \ {0, 1}
  PROVE  n * n \in Nat \ {0, 1} /\ \A y \in 0 .. n - 1 : 1 + n * y \in 0 .. n * n - 1
<1>1. n * (n - 1) \in Nat \ {0}
  BY Products
<1>2. n * n = n + n * (n - 1)
  OBVIOUS
<1>3. ASSUME NEW y \in 0 .. n - 1 PROVE n * y \in Nat /\ n * y <= n * (n - 1)
  <2>1. n * y \in Nat /\ n * (n - 1 - y) \in Nat
    BY Products
  <2>2. n * (n - 1) = n * y + n * (n - 1 - y)
    BY <1>3
  <2> QED
    BY <1>1, <2>1, <2>2
<1> QED
  BY <1>1, <1>2, <1>3

(* The function L of decryption: it finds y modulo n in 1 + n * y.         *)
LEMMA LogarithmIs ==
  ASSUME NEW n \in Nat \ {0, 1}, NEW c \in Nat, NEW e \in Nat, NEW y \in Nat,
         Congruent(PowersOf(c)[e], 1 + n * y, n * n)
  PROVE  (ModPow(c, e, n * n) - 1) \div n = y % n
<1> DEFINE r == y % n
           v == 1 + n * r
           w == 1 + n * y
           s == n * n
           u == PowersOf(c)[e]
<1>1. r \in 0 .. n - 1 /\ r \in Nat
  BY DivisionIs
<1>2. Congruent(w, v, s)
  BY PlainReduced
<1>3. s \in Nat \ {0, 1} /\ v \in 0 .. s - 1 /\ w \in Int /\ u \in Int
  <2>1. s \in Nat \ {0, 1}
    BY SquareIs
  <2>2. v \in 0 .. s - 1
    <3> HIDE DEF r
    <3> QED
      BY <1>1, SquareIs
  <2>3. u \in Int
    BY PowersAreIntegers
  <2> QED
    BY <2>1, <2>2, <2>3
<1>4. v - 1 = n * r
  BY <1>1
<1>5. Congruent(u, w, s)
  OBVIOUS
<1> HIDE DEF r, v, w, s, u
<1>6. v \in Int /\ s \in Int
  BY <1>3
<1>7. Congruent(u, v, s)
  BY <1>2, <1>3, <1>5, <1>6, CongruentOver
<1>8. ModPow(c, e, s) = v
  BY <1>3, <1>7, ModPowIsRemainder DEF u
<1>9. (n * r) \div n = r
  BY <1>1, ExactDivision
<1>10. (ModPow(c, e, s) - 1) \div n = r
  BY <1>4, <1>8, <1>9
<1> QED
  BY <1>10 DEF r, s

(* So decryption multiplies what it finds by mu.                           *)
LEMMA DecryptComputes ==
  ASSUME NEW n \in Nat \ {0, 1}, NEW lambda \in Nat, NEW mu \in Nat, NEW c \in Nat, NEW y \in Nat,
         Congruent(PowersOf(c)[lambda], 1 + n * y, n * n)
  PROVE  Decrypt(n, lambda, mu, c) \in 0 .. n - 1 /\ Congruent(Decrypt(n, lambda, mu, c), y * mu, n)
<1> DEFINE r == y % n
           d == MulMod(r, mu, n)
<1>1. r \in 0 .. n - 1 /\ r \in Nat /\ Congruent(r, y, n)
  BY DivisionIs, CongruentRemainder
<1>2. (ModPow(c, lambda, n * n) - 1) \div n = r
  BY LogarithmIs
<1>3. r % n = r
  <2> HIDE DEF r
  <2> QED
    BY <1>1
<1> HIDE DEF r
<1>4. Decrypt(n, lambda, mu, c) = d
  BY <1>2, <1>3 DEF Decrypt
<1>5. d \in 0 .. n - 1 /\ Congruent(d, r * mu, n)
  BY <1>1, MulModComputes
<1>6. Congruent(r * mu, y * mu, n)
  <2>1. Congruent(mu, mu, n)
    BY CongruentToItself
  <2> QED
    BY <1>1, <2>1, CongruentProducts
<1> HIDE DEF d
<1>7. Congruent(d, y * mu, n)
  <2> DEFINE a == r * mu
             b == y * mu
  <2>1. a \in Int /\ b \in Int /\ d \in Int
    BY <1>1, <1>5
  <2>2. Congruent(d, a, n) /\ Congruent(a, b, n)
    BY <1>5, <1>6
  <2> HIDE DEF a, b
  <2>3. Congruent(d, b, n)
    BY <2>1, <2>2, CongruentOver
  <2> QED
    BY <2>3 DEF b
<1> QED
  BY <1>4, <1>5, <1>7

(* A power of 1 + n * x times a factor.                                    *)
LEMMA FactorRaised ==
  ASSUME NEW n \in Nat \ {0, 1}, NEW c \in Nat, NEW x \in Nat, NEW b \in Nat, NEW e \in Nat,
         Congruent(c, (1 + n * x) * b, n * n)
  PROVE  Congruent(PowersOf(c)[e], (1 + n * (x * e)) * PowersOf(b)[e], n * n)
<1> DEFINE s == n * n
           a == 1 + n * x
           g == 1 + n * (x * e)
           ae == PowersOf(a)[e]
           be == PowersOf(b)[e]
           ce == PowersOf(c)[e]
<1>1. s \in Int /\ a \in Int /\ g \in Int
  OBVIOUS
<1>2. Congruent(c, a * b, s)
  OBVIOUS
<1>3. Congruent(ae, g, s)
  <2>1. n \in Int /\ x \in Int
    OBVIOUS
  <2> QED
    BY <2>1, PowersOfOneMore, Zenon
<1> HIDE DEF s, a, g
<1>4. ae \in Int /\ be \in Int /\ ce \in Int
  BY <1>1, PowersAreIntegers
<1>5. Congruent(ce, ae * be, s)
  <2> DEFINE ab == a * b
  <2>1. ab \in Int
    BY <1>1
  <2>2. PowersOf(ab)[e] = ae * be
    BY <1>1, PowerOfProduct
  <2>3. Congruent(c, ab, s)
    BY <1>2
  <2> HIDE DEF ab, ae, be
  <2>4. Congruent(PowersOf(c)[e], PowersOf(ab)[e], s)
    BY <1>1, <2>1, <2>3, CongruentPowers
  <2> QED
    BY <2>2, <2>4
<1>6. Congruent(ae * be, g * be, s)
  <2> HIDE DEF ae, be
  <2>1. Congruent(be, be, s)
    BY <1>1, <1>4, CongruentToItself
  <2> QED
    BY <1>1, <1>3, <1>4, <2>1, CongruentProducts
<1> HIDE DEF ae, be, ce
<1>7. Congruent(ce, g * be, s)
  <2> DEFINE u == ae * be
             v == g * be
  <2>1. u \in Int /\ v \in Int
    BY <1>1, <1>4
  <2>2. Congruent(ce, u, s) /\ Congruent(u, v, s)
    BY <1>5, <1>6
  <2> HIDE DEF u, v
  <2>3. Congruent(ce, v, s)
    BY <1>1, <1>4, <2>1, <2>2, CongruentOver
  <2> QED
    BY <2>3 DEF v
<1> QED
  BY <1>7 DEF ce, be, g, s

(* Decryption gives x when its power of the factor is 1.                   *)
LEMMA FactorVanishes ==
  ASSUME NEW n \in Nat \ {0, 1}, NEW lambda \in Nat, NEW mu \in Nat, OneModulo(lambda * mu, n),
         NEW c \in Nat, NEW x \in 0 .. n - 1, NEW b \in Nat,
         Congruent(c, (1 + n * x) * b, n * n), OneModulo(PowersOf(b)[lambda], n * n)
  PROVE  Decrypt(n, lambda, mu, c) = x
<1> DEFINE s == n * n
           g == 1 + n * (x * lambda)
           o == PowersOf(b)[lambda]
           ce == PowersOf(c)[lambda]
<1>1. x \in Nat /\ x \in Int
  OBVIOUS
<1>2. Congruent(ce, g * o, s)
  BY <1>1, FactorRaised
<1>3. OneModulo(o, s)
  OBVIOUS
<1>4. x * lambda \in Nat /\ g \in Int /\ s \in Int /\ ce \in Int /\ o \in Int
  <2>1. x * lambda \in Nat
    BY <1>1, Products
  <2>2. g \in Int
    BY <2>1
  <2> QED
    BY <2>1, <2>2, PowersAreIntegers
<1>5. Congruent(ce, g, s)
  <2> HIDE DEF g, o, s, ce
  <2>1. Congruent(g * o, g, s)
    BY <1>3, <1>4, TimesOneModulo
  <2> DEFINE u == g * o
  <2>2. u \in Int /\ Congruent(ce, u, s) /\ Congruent(u, g, s)
    BY <1>2, <1>4, <2>1
  <2> HIDE DEF u
  <2> QED
    BY <1>4, <2>2, CongruentOver
<1> DEFINE y == x * lambda
           d == Decrypt(n, lambda, mu, c)
<1>6. d \in 0 .. n - 1 /\ Congruent(d, y * mu, n)
  <2>1. y \in Nat /\ Congruent(PowersOf(c)[lambda], 1 + n * y, n * n)
    BY <1>4, <1>5
  <2> HIDE DEF y
  <2> QED
    BY <2>1, DecryptComputes
<1>7. Congruent(x * (lambda * mu), x, n)
  <2> DEFINE l == lambda * mu
  <2>1. l \in Int /\ OneModulo(l, n)
    OBVIOUS
  <2> HIDE DEF l
  <2>2. Congruent(x * l, x, n)
    BY <1>1, <2>1, TimesOneModulo
  <2> QED
    BY <2>2 DEF l
<1>8. y * mu = x * (lambda * mu) /\ y * mu \in Int
  BY <1>1
<1> HIDE DEF d, y
<1>9. Congruent(d, x, n)
  <2> DEFINE z == y * mu
  <2>1. z \in Int /\ Congruent(d, z, n) /\ Congruent(z, x, n) /\ d \in Int
    BY <1>6, <1>7, <1>8
  <2> HIDE DEF z
  <2> QED
    BY <1>1, <2>1, CongruentOver
<1>10. d = x
  BY <1>6, <1>9, CongruentRemainders
<1> QED
  BY <1>10 DEF d

(* An encryption of x: modulo n * n it is 1 + n * x times the n-th power   *)
(* of a power of two, the random factor.                                   *)
IsEncryption(n, c, x, k) == Congruent(c, (1 + n * x) * TwoTo[n * k], n * n)

Encrypted(n, c, x) == c \in Nat /\ \E k \in Nat : IsEncryption(n, c, x, k)

(* A key pair that undoes encryption.                                      *)
WorkingKey(n, lambda, mu) ==
  /\ n \in Nat \ {0, 1} /\ lambda \in Nat /\ mu \in Nat
  /\ OneModulo(TwoTo[n * lambda], n * n)
  /\ OneModulo(lambda * mu, n)

(* A working key decrypts an encryption to its plaintext.                  *)
LEMMA EncryptionDecrypts ==
  ASSUME NEW n, NEW lambda, NEW mu, WorkingKey(n, lambda, mu),
         NEW c, NEW x \in 0 .. n - 1, Encrypted(n, c, x)
  PROVE  Decrypt(n, lambda, mu, c) = x
<1>1. /\ n \in Nat \ {0, 1} /\ lambda \in Nat /\ mu \in Nat /\ c \in Nat
      /\ OneModulo(TwoTo[n * lambda], n * n) /\ OneModulo(lambda * mu, n)
  BY DEF WorkingKey, Encrypted
<1>2. PICK k \in Nat : IsEncryption(n, c, x, k)
  BY DEF Encrypted
<1> DEFINE s == n * n
           j == n * k
           t == n * lambda
           b == TwoTo[j]
<1>3. j \in Nat /\ t \in Nat /\ s \in Int /\ j * lambda = t * k
  BY <1>1, Products
<1>4. Congruent(c, (1 + n * x) * b, s)
  BY <1>2 DEF IsEncryption
<1>5. OneModulo(TwoTo[t], s)
  BY <1>1
<1> HIDE DEF s, j, t
<1>6. b \in Nat /\ PowersOf(b)[lambda] = TwoTo[j * lambda]
  BY <1>1, <1>3, TwoToIs, TwoToPower
<1>7. OneModulo(TwoTo[t * k], s)
  BY <1>3, <1>5, TwoToRaised
<1> HIDE DEF b
<1>8. OneModulo(PowersOf(b)[lambda], s)
  BY <1>3, <1>6, <1>7
<1> QED
  BY <1>1, <1>4, <1>6, <1>8, FactorVanishes DEF s

-----------------------------------------------------------------------------
(* What the operations on ciphertexts make. *)

(* A product with a plaintext is a product with its remainder.             *)
LEMMA EncryptionReduced ==
  ASSUME NEW n \in Nat \ {0, 1}, NEW c \in Nat, NEW y \in Nat, NEW k \in Nat,
         IsEncryption(n, c, y, k)
  PROVE  IsEncryption(n, c, y % n, k)
<1> DEFINE r == y % n
           a == 1 + n * y
           b == 1 + n * r
           s == n * n
           t == n * k
           p == TwoTo[t]
<1>1. Congruent(a, b, s)
  BY PlainReduced
<1>2. r \in Nat
  BY DivisionIs
<1> HIDE DEF r
<1>3. a \in Int /\ b \in Int /\ s \in Int /\ t \in Nat
  BY <1>2, Products
<1>4. Congruent(c, a * p, s)
  BY DEF IsEncryption
<1> HIDE DEF a, b, s, t
<1>5. p \in Int
  BY <1>3, TwoToIs
<1> HIDE DEF p
<1>6. Congruent(a * p, b * p, s)
  <2>1. Congruent(p, p, s)
    BY <1>3, <1>5, CongruentToItself
  <2> QED
    BY <1>1, <1>3, <1>5, <2>1, CongruentProducts
<1>7. Congruent(c, b * p, s)
  <2> DEFINE u == a * p
             v == b * p
  <2>1. u \in Int /\ v \in Int /\ Congruent(c, u, s) /\ Congruent(u, v, s)
    BY <1>3, <1>4, <1>5, <1>6
  <2> HIDE DEF u, v
  <2>2. Congruent(c, v, s)
    BY <1>3, <2>1, CongruentOver
  <2> QED
    BY <2>2 DEF v
<1> QED
  BY <1>7 DEF IsEncryption, b, p, s, t, r

(* Encrypting computes what it should, with any factor.                    *)
LEMMA EncryptComputes ==
  ASSUME NEW n \in Nat \ {0, 1}, NEW m \in Nat, NEW factor \in Nat
  PROVE  /\ Encrypt(n, m, factor) \in Nat /\ m % n \in 0 .. n - 1
         /\ Congruent(Encrypt(n, m, factor), (1 + n * (m % n)) * PowersOf(factor)[n], n * n)
<1> DEFINE s == n * n
           r == m % n
           one == 1
           base == n + 1
           v == ModPow(base, r, s)
           w == ModPow(factor, n, s)
           c == MulMod(v, w, s)
           g == 1 + n * r
           p == PowersOf(factor)[n]
<1>1. r \in 0 .. n - 1 /\ r \in Nat
  BY DivisionIs
<1>2. Encrypt(n, m, factor) = c
  BY DEF Encrypt
<1>3. s \in Nat \ {0, 1}
  BY SquareIs
<1>4. Congruent(PowersOf(base)[r], g, s)
  <2>1. base = 1 + n * one /\ one * r = r /\ one \in Int /\ n \in Int
    <3> HIDE DEF r
    <3> QED
      BY <1>1
  <2> HIDE DEF base, one, r
  <2>2. Congruent(PowersOf(1 + n * one)[r], 1 + n * (one * r), n * n)
    BY <1>1, <2>1, PowersOfOneMore, Zenon
  <2> QED
    BY <2>1, <2>2
<1>5. base \in Nat
  OBVIOUS
<1>6. g \in Int
  <2> HIDE DEF r
  <2> QED
    BY <1>1
<1>7. p \in Int
  BY PowersAreIntegers
<1>8. v \in 0 .. s - 1 /\ Congruent(v, PowersOf(base)[r], s)
  <2> HIDE DEF r, s, base
  <2> QED
    BY <1>1, <1>3, <1>5, ModPowComputes
<1>9. w \in 0 .. s - 1 /\ Congruent(w, p, s)
  <2> HIDE DEF s
  <2> QED
    BY <1>3, ModPowComputes
<1>10. PowersOf(base)[r] \in Int
  <2> HIDE DEF r, base
  <2> QED
    BY <1>1, <1>5, PowersAreIntegers
<1> HIDE DEF s, base, v, w, g, p
<1>11. v \in Nat /\ w \in Nat /\ s \in Int
  BY <1>3, <1>8, <1>9
<1>12. Congruent(v, g, s)
  BY <1>4, <1>6, <1>8, <1>10, <1>11, CongruentOver
<1>13. Congruent(v * w, g * p, s)
  BY <1>6, <1>7, <1>9, <1>11, <1>12, CongruentProducts
<1>14. c \in 0 .. s - 1 /\ Congruent(c, v * w, s)
  BY <1>3, <1>11, MulModComputes
<1> HIDE DEF c
<1>15. Congruent(c, g * p, s)
  <2> DEFINE a == v * w
             b == g * p
  <2>1. a \in Int /\ b \in Int /\ c \in Int /\ Congruent(c, a, s) /\ Congruent(a, b, s)
    BY <1>3, <1>6, <1>7, <1>11, <1>13, <1>14
  <2> HIDE DEF a, b
  <2>2. Congruent(c, b, s)
    BY <1>11, <2>1, CongruentOver
  <2> QED
    BY <2>2 DEF b
<1>16. c \in Nat
  BY <1>3, <1>14
<1> QED
  BY <1>1, <1>2, <1>15, <1>16 DEF g, p, s, r

(* So encrypting with 2 makes an encryption of the plaintext modulo n.     *)
LEMMA EncryptionMade ==
  ASSUME NEW n \in Nat \ {0, 1}, NEW m \in Nat
  PROVE  Encrypted(n, Encrypt(n, m, 2), m % n) /\ m % n \in 0 .. n - 1
<1> DEFINE two == 2
           one == 1
           c == Encrypt(n, m, two)
           r == m % n
<1>1. two \in Nat /\ one \in Nat /\ n * one = n /\ PowersOf(two)[n] = TwoTo[n]
  BY DEF TwoTo
<1> HIDE DEF two, one
<1>2. c \in Nat /\ r \in 0 .. n - 1 /\ Congruent(c, (1 + n * r) * TwoTo[n], n * n)
  BY <1>1, EncryptComputes
<1> HIDE DEF c, r
<1>3. IsEncryption(n, c, r, one)
  BY <1>1, <1>2 DEF IsEncryption
<1>4. Encrypted(n, c, r)
  BY <1>1, <1>2, <1>3 DEF Encrypted
<1> QED
  BY <1>2, <1>4 DEF c, r, two

(* Adding multiplies two of them: the factors' exponents are added too.    *)
LEMMA EncryptionsAdded ==
  ASSUME NEW n \in Nat \ {0, 1}, NEW a, NEW x \in Nat, Encrypted(n, a, x),
         NEW b, NEW y \in Nat, Encrypted(n, b, y)
  PROVE  Encrypted(n, MulMod(a, b, n * n), (x + y) % n) /\ (x + y) % n \in 0 .. n - 1
<1>1. PICK k \in Nat : IsEncryption(n, a, x, k)
  BY DEF Encrypted
<1>2. PICK l \in Nat : IsEncryption(n, b, y, l)
  BY DEF Encrypted
<1> DEFINE s == n * n
           g == 1 + n * x
           h == 1 + n * y
           z == x + y
           o == 1 + n * z
           i == n * k
           j == n * l
           m == n * (k + l)
           t == TwoTo[i]
           u == TwoTo[j]
           w == TwoTo[m]
           c == MulMod(a, b, s)
<1>3. /\ a \in Nat /\ b \in Nat /\ s \in Nat \ {0, 1} /\ g \in Int /\ h \in Int /\ z \in Nat
      /\ i \in Nat /\ j \in Nat
  BY SquareIs, Products DEF Encrypted
<1>4. m \in Nat
  BY k + l \in Nat, Products
<1>5. i + j = m
  OBVIOUS
<1>6. Congruent(a, g * t, s) /\ Congruent(b, h * u, s)
  BY <1>1, <1>2 DEF IsEncryption
<1>7. o \in Int /\ Congruent(g * h, o, s)
  <2>1. (1 + n * x) * (1 + n * y) = (1 + n * (x + y)) + (n * n) * (x * y)
    OBVIOUS
  <2>2. x * y \in Int /\ o \in Int
    OBVIOUS
  <2> QED
    BY <2>1, <2>2 DEF Congruent
<1> HIDE DEF g, h, i, j, m, s, o, z
<1>8. t \in Int /\ u \in Int /\ w \in Int /\ t * u = w
  <2>1. t \in Int /\ u \in Int /\ w \in Int
    BY <1>3, <1>4, TwoToIs
  <2>2. TwoTo[i + j] = t * u
    BY <1>3, TwoToSum
  <2> QED
    BY <1>5, <2>1, <2>2
<1> HIDE DEF t, u, w
<1>9. s \in Int /\ a * b \in Nat
  BY <1>3, Products
<1>10. Congruent(a * b, (g * t) * (h * u), s)
  <2> DEFINE e == g * t
             f == h * u
  <2>1. e \in Int /\ f \in Int /\ Congruent(a, e, s) /\ Congruent(b, f, s)
    BY <1>3, <1>6, <1>8
  <2> HIDE DEF e, f
  <2>2. Congruent(a * b, e * f, s)
    BY <1>3, <1>9, <2>1, CongruentProducts
  <2> QED
    BY <2>2 DEF e, f
<1>11. (g * t) * (h * u) = (g * h) * w
  <2>1. (g * t) * (h * u) = (g * h) * (t * u)
    BY <1>3, <1>8
  <2> QED
    BY <1>8, <2>1
<1>12. Congruent((g * h) * w, o * w, s)
  <2> DEFINE e == g * h
  <2>1. e \in Int /\ Congruent(e, o, s) /\ Congruent(w, w, s)
    BY <1>3, <1>7, <1>8, <1>9, CongruentToItself
  <2> HIDE DEF e
  <2>2. Congruent(e * w, o * w, s)
    BY <1>7, <1>8, <1>9, <2>1, CongruentProducts
  <2> QED
    BY <2>2 DEF e
<1>13. c \in 0 .. s - 1 /\ Congruent(c, a * b, s)
  BY <1>3, MulModComputes
<1> HIDE DEF c
<1>14. Congruent(c, o * w, s)
  <2> DEFINE d == a * b
             e == (g * h) * w
             f == o * w
  <2>1. /\ c \in Int /\ d \in Int /\ e \in Int /\ f \in Int
    BY <1>3, <1>7, <1>8, <1>9, <1>13
  <2>2. Congruent(c, d, s) /\ Congruent(d, e, s) /\ Congruent(e, f, s)
    BY <1>10, <1>11, <1>12, <1>13
  <2> HIDE DEF d, e, f
  <2>3. Congruent(c, e, s)
    BY <1>9, <2>1, <2>2, CongruentOver
  <2>4. Congruent(c, f, s)
    BY <1>9, <2>1, <2>2, <2>3, CongruentOver
  <2> QED
    BY <2>4 DEF f
<1>15. c \in Nat /\ k + l \in Nat
  BY <1>3, <1>13
<1>16. IsEncryption(n, c, z, k + l)
  BY <1>14 DEF IsEncryption, o, w, m, s
<1>17. IsEncryption(n, c, z % n, k + l) /\ z % n \in 0 .. n - 1
  BY <1>3, <1>15, <1>16, EncryptionReduced, DivisionIs
<1>18. Encrypted(n, c, z % n)
  BY <1>15, <1>17 DEF Encrypted
<1> QED
  BY <1>17, <1>18 DEF c, s, z

(* Multiplying by a constant takes a power.                                *)
LEMMA EncryptionMultiplied ==
  ASSUME NEW n \in Nat \ {0, 1}, NEW a, NEW x \in Nat, Encrypted(n, a, x), NEW e \in Nat
  PROVE  Encrypted(n, ModPow(a, e, n * n), (x * e) % n) /\ (x * e) % n \in 0 .. n - 1
<1>1. PICK k \in Nat : IsEncryption(n, a, x, k)
  BY DEF Encrypted
<1>2. a \in Nat
  BY DEF Encrypted
<1> DEFINE s == n * n
           y == x * e
           l == k * e
           g == 1 + n * y
           i == n * k
           t == i * e
           b == TwoTo[i]
           w == TwoTo[t]
           ae == PowersOf(a)[e]
           c == ModPow(a, e, s)
<1>3. Congruent(ae, g * w, s)
  <2>1. i \in Nat
    BY Products
  <2>2. Congruent(a, (1 + n * x) * b, s)
    BY <1>1 DEF IsEncryption
  <2> HIDE DEF i
  <2>3. b \in Nat /\ PowersOf(b)[e] = w
    BY <2>1, TwoToIs, TwoToPower
  <2> HIDE DEF b
  <2>4. Congruent(ae, g * PowersOf(b)[e], s)
    BY <1>2, <2>2, <2>3, FactorRaised
  <2> QED
    BY <2>3, <2>4
<1>4. s \in Nat \ {0, 1} /\ y \in Nat /\ l \in Nat /\ t \in Nat
  <2>1. i \in Nat
    BY Products
  <2> QED
    BY <2>1, SquareIs, Products
<1>5. t = n * l
  OBVIOUS
<1>6. c \in 0 .. s - 1 /\ Congruent(c, ae, s)
  <2> HIDE DEF s
  <2> QED
    BY <1>2, <1>4, ModPowComputes
<1>7. ae \in Int
  BY <1>2, PowersAreIntegers
<1> HIDE DEF y
<1>8. g \in Int
  BY <1>4
<1> HIDE DEF s, l, g, t, ae, c
<1>9. w \in Int
  BY <1>4, TwoToIs
<1> HIDE DEF w
<1>10. Congruent(c, g * w, s)
  <2> DEFINE u == g * w
  <2>1. u \in Int /\ Congruent(ae, u, s) /\ c \in Int /\ s \in Int
    BY <1>3, <1>4, <1>6, <1>8, <1>9
  <2> HIDE DEF u
  <2>2. Congruent(c, u, s)
    BY <1>6, <1>7, <2>1, CongruentOver
  <2> QED
    BY <2>2 DEF u
<1>11. IsEncryption(n, c, y, l)
  BY <1>5, <1>10 DEF IsEncryption, g, w, s
<1>12. c \in Nat
  BY <1>4, <1>6
<1>13. IsEncryption(n, c, y % n, l) /\ y % n \in 0 .. n - 1
  BY <1>4, <1>11, <1>12, EncryptionReduced, DivisionIs
<1>14. Encrypted(n, c, y % n)
  BY <1>4, <1>12, <1>13 DEF Encrypted
<1> QED
  BY <1>13, <1>14 DEF c, s, y

-----------------------------------------------------------------------------
(* What a new key pair was tried with shows that it works. *)

(* The conditions under which a key pair is made.                          *)
MadeOf(pair, p, q) ==
  LET n == p * q
      lambda == Lcm(p - 1, q - 1)
  IN  /\ pair.n = n /\ pair.lambda = lambda
      /\ pair.mu = ModInverse((ModPow(n + 1, lambda, n * n) - 1) \div n, n)
      /\ pair.mu # DivisionByZero /\ Gcd(n, lambda) = 1
      /\ Decrypt(n, lambda, pair.mu, Encrypt(n, TestPlaintext, 2)) = TestPlaintext

(* A key pair that is returned has met all of them.                        *)
LEMMA KeyPairMade ==
  ASSUME NEW p, NEW q, KeyPair(p, q).ok
  PROVE  MadeOf(KeyPair(p, q), p, q)
<1> DEFINE n == p * q
           lambda == Lcm(p - 1, q - 1)
           power == ModPow(n + 1, lambda, n * n)
           mu == ModInverse((power - 1) \div n, n)
           pair == [ok |-> TRUE, n |-> n, lambda |-> lambda, mu |-> mu]
           tried == Decrypt(n, lambda, mu, Encrypt(n, TestPlaintext, 2))
           errors == {"identical primes", "primes too close", "degenerate primes", "validation failed"}
<1>1. \/ \E e \in errors : KeyPair(p, q) = Failure(e)
      \/ /\ KeyPair(p, q) = pair /\ mu # DivisionByZero
         /\ Gcd(n, lambda) = 1 /\ tried = TestPlaintext
  <2>1. CASE p = q
    BY <2>1 DEF KeyPair
  <2>2. CASE p # q /\ (IF p > q THEN p - q ELSE q - p) < PowerOfTwo[KeyBits \div 4]
    BY <2>2 DEF KeyPair
  <2>3. CASE p # q /\ ~((IF p > q THEN p - q ELSE q - p) < PowerOfTwo[KeyBits \div 4])
    <3>1. KeyPair(p, q) =
            IF Gcd(n, lambda) # 1 \/ mu = DivisionByZero THEN Failure("degenerate primes")
            ELSE IF tried # TestPlaintext THEN Failure("validation failed")
            ELSE pair
      BY <2>3 DEF KeyPair
    <3> HIDE DEF pair, tried, mu, power, lambda, n
    <3> QED
      BY <3>1
  <2> QED
    BY <2>1, <2>2, <2>3
<1>2. \A e : ~Failure(e).ok
  BY DEF Failure
<1>3. /\ KeyPair(p, q) = pair /\ mu # DivisionByZero
      /\ Gcd(n, lambda) = 1 /\ tried = TestPlaintext
  <2> HIDE DEF pair, mu, tried, lambda, n
  <2> QED
    BY <1>1, <1>2
<1>4. pair.n = n /\ pair.lambda = lambda /\ pair.mu = mu
  <2> HIDE DEF mu, lambda, n
  <2> QED
    OBVIOUS
<1> HIDE DEF pair
<1>5. MadeOf(pair, p, q)
  BY <1>3, <1>4, Zenon DEF MadeOf
<1> QED
  BY <1>3, <1>5

(* What is left by a multiple of p - 1, if 2^(p - 1) leaves 1.             *)
LEMMA FermatRaised ==
  ASSUME NEW p \in Nat \ {0, 1}, OneModulo(TwoTo[p - 1], p), NEW e \in Nat, Divides(p - 1, e)
  PROVE  OneModulo(TwoTo[e], p)
<1>1. PICK j \in Nat : e = (p - 1) * j
  BY DEF Divides
<1> DEFINE k == p - 1
<1>2. k \in Nat /\ e = k * j /\ p \in Int /\ OneModulo(TwoTo[k], p)
  BY <1>1
<1> HIDE DEF k
<1>3. OneModulo(TwoTo[k * j], p)
  BY <1>2, TwoToRaised
<1> QED
  BY <1>2, <1>3

(* The modulus is prime to lambda, so lambda is not a multiple of it.      *)
LEMMA CoprimeIsNotZero ==
  ASSUME NEW n \in Nat \ {0, 1}, NEW lambda \in Nat, Gcd(n, lambda) = 1
  PROVE  lambda % n # 0
<1> SUFFICES ASSUME lambda % n = 0 PROVE FALSE
  OBVIOUS
<1> DEFINE g == Gcd(n, lambda)
           q == lambda \div n
<1>1. q \in Nat /\ lambda = n * q
  BY DivisionIs
<1>2. CommonDivisor(g, n, lambda)
  BY GcdComputes
<1> HIDE DEF q
<1>3. Divides(n, n) /\ Divides(n, lambda)
  <2>1. n = n * 1
    OBVIOUS
  <2> QED
    BY <1>1, <2>1 DEF Divides
<1>4. g = 1
  OBVIOUS
<1> HIDE DEF g
<1>5. Divides(n, g)
  BY <1>2, <1>3 DEF CommonDivisor
<1>6. PICK j \in Nat : 1 = n * j
  BY <1>4, <1>5 DEF Divides
<1>7. j # 0
  BY <1>6
<1>8. n * (j - 1) \in Nat /\ n * j = n + n * (j - 1)
  BY <1>7, Products
<1> QED
  BY <1>6, <1>8

(* If T comes back from an encryption with the factor u = 1 + n * i, then  *)
(* n divides i too.                                                        *)
LEMMA TrialShows ==
  ASSUME NEW n \in Nat, NEW lambda \in Int, NEW mu \in Int, NEW T \in Int, NEW i \in Int,
         OneModulo(lambda * mu, n), Congruent(T, (T * lambda + i) * mu, n)
  PROVE  OneModulo(1 + n * i, n * n)
<1>1. PICK a \in Int : lambda * mu = 1 + n * a
  BY DEF OneModulo, Congruent
<1>2. PICK b \in Int : T = (T * lambda + i) * mu + n * b
  BY DEF Congruent
<1>3. (T * lambda + i) * mu = T * (lambda * mu) + i * mu
  OBVIOUS
<1>4. T * (1 + n * a) = T + n * (T * a)
  BY <1>1
<1>5. i * mu = -(n * (T * a)) - n * b
  BY <1>1, <1>2, <1>3, <1>4
<1> DEFINE k == -(lambda * (T * a + b)) - a * i
<1>6. i = n * k
  <2>1. i * (lambda * mu) = lambda * (i * mu)
    OBVIOUS
  <2>2. i * (1 + n * a) = i + n * (a * i)
    BY <1>1
  <2>3. lambda * (-(n * (T * a)) - n * b) = n * (-(lambda * (T * a + b)))
    BY <1>1, <1>2
  <2>4. n * (-(lambda * (T * a + b)) - a * i) = n * (-(lambda * (T * a + b))) - n * (a * i)
    BY <1>1, <1>2
  <2> DEFINE x == n * (-(lambda * (T * a + b)))
             y == n * (a * i)
  <2>5. x \in Int /\ y \in Int
    BY <1>1, <1>2
  <2>6. i + y = x
    BY <1>1, <1>5, <2>1, <2>2, <2>3
  <2>7. n * k = x - y
    BY <2>4
  <2> HIDE DEF x, y, k
  <2> QED
    BY <2>5, <2>6, <2>7
<1>7. k \in Int
  BY <1>1, <1>2
<1> HIDE DEF k
<1>8. 1 + n * i = 1 + (n * n) * k
  <2>1. n * (n * k) = (n * n) * k
    BY <1>7
  <2> QED
    BY <1>6, <2>1
<1> QED
  BY <1>7, <1>8 DEF OneModulo, Congruent

(* The trial of a new key pair, decrypted: T is TestPlaintext.             *)
LEMMA TrialDecrypts ==
  ASSUME NEW n \in Nat \ {0, 1}, NEW lambda \in Nat, NEW mu \in Nat, NEW T \in Nat, NEW i \in Nat,
         TwoTo[n * lambda] = 1 + n * i, Decrypt(n, lambda, mu, Encrypt(n, T, 2)) = T
  PROVE  Congruent(T, (T * lambda + i) * mu, n)
<1> DEFINE two == 2
           e == Encrypt(n, T, two)
           r == T % n
           s == n * n
           z == r * lambda
           y == z + i
           u == TwoTo[n * lambda]
           g == 1 + n * z
           h == 1 + n * y
           ce == PowersOf(e)[lambda]
           d == Decrypt(n, lambda, mu, e)
           b == TwoTo[n]
<1>1. e \in Nat /\ r \in Nat /\ Congruent(e, (1 + n * r) * b, s)
  <2>1. two \in Nat /\ PowersOf(two)[n] = b
    BY DEF TwoTo
  <2> HIDE DEF two
  <2>2. e \in Nat /\ r \in 0 .. n - 1 /\ Congruent(e, (1 + n * r) * PowersOf(two)[n], s)
    BY <2>1, EncryptComputes
  <2> QED
    BY <2>1, <2>2
<1> HIDE DEF e, r
<1>2. Congruent(ce, g * u, s)
  <2>1. b \in Nat /\ PowersOf(b)[lambda] = u
    BY TwoToIs, TwoToPower
  <2> HIDE DEF b
  <2>2. Congruent(ce, g * PowersOf(b)[lambda], s)
    BY <1>1, <2>1, FactorRaised
  <2> QED
    BY <2>1, <2>2
<1>3. z \in Nat
  BY <1>1, Products
<1> HIDE DEF z
<1>4. y \in Nat /\ s \in Int
  BY <1>3
<1>5. u = 1 + n * i
  OBVIOUS
<1>6. Congruent(g * u, h, s) /\ g \in Int /\ u \in Int /\ h \in Int
  <2>1. (1 + n * z) * (1 + n * i) = (1 + n * (z + i)) + (n * n) * (z * i)
    BY <1>3
  <2>2. z * i \in Int /\ g \in Int /\ 1 + n * i \in Int /\ h \in Int
    BY <1>3
  <2> HIDE DEF u
  <2> QED
    BY <1>5, <2>1, <2>2 DEF Congruent
<1>7. ce \in Int
  BY <1>1, PowersAreIntegers
<1> HIDE DEF u
<1>8. Congruent(ce, 1 + n * y, s)
  <2> DEFINE a == g * u
  <2>1. a \in Int /\ Congruent(ce, a, s) /\ Congruent(a, h, s)
    BY <1>2, <1>6
  <2> HIDE DEF a, g, ce, s, y, h
  <2>2. Congruent(ce, h, s)
    BY <1>4, <1>6, <1>7, <2>1, CongruentOver
  <2> QED
    BY <2>2 DEF h
<1>9. d \in 0 .. n - 1 /\ Congruent(d, y * mu, n)
  <2> HIDE DEF y
  <2> QED
    BY <1>1, <1>4, <1>8, DecryptComputes
<1>10. d = T
  BY DEF e, two
<1> HIDE DEF d
<1>11. r = T
  BY <1>9, <1>10 DEF r
<1> QED
  BY <1>9, <1>10, <1>11 DEF z

(* What mu is in a key pair that is made: it undoes lambda modulo n.       *)
LEMMA MuInverts ==
  ASSUME NEW p \in Nat \ {0, 1}, NEW q \in Nat \ {0, 1}, NEW pair, MadeOf(pair, p, q)
  PROVE  /\ pair.n = p * q /\ pair.n \in Nat \ {0, 1}
         /\ pair.lambda \in Nat /\ Divides(p - 1, pair.lambda) /\ Divides(q - 1, pair.lambda)
         /\ pair.mu \in Nat /\ OneModulo(pair.lambda * pair.mu, pair.n)
<1> DEFINE n == p * q
           lambda == Lcm(p - 1, q - 1)
           mu == pair.mu
           rest == lambda % n
<1>1. /\ pair.n = n /\ pair.lambda = lambda
      /\ mu = ModInverse((ModPow(n + 1, lambda, n * n) - 1) \div n, n)
      /\ mu # DivisionByZero /\ Gcd(n, lambda) = 1
  BY Zenon DEF MadeOf
<1>2. n \in Nat \ {0, 1}
  <2>1. p * (q - 1) \in Nat /\ p * q = p + p * (q - 1)
    BY Products
  <2> QED
    BY <2>1
<1>3. lambda \in Nat /\ Divides(p - 1, lambda) /\ Divides(q - 1, lambda)
  <2>1. p - 1 \in Nat \ {0} /\ q - 1 \in Nat \ {0}
    OBVIOUS
  <2> QED
    BY <2>1, LcmComputes
<1> HIDE DEF lambda, mu, n
<1>4. (ModPow(n + 1, lambda, n * n) - 1) \div n = rest
  <2> DEFINE one == 1
             base == n + 1
  <2>1. base = 1 + n * one /\ one * lambda = lambda /\ one \in Int /\ n \in Int /\ base \in Nat
    BY <1>2, <1>3
  <2> HIDE DEF base, one
  <2>2. Congruent(PowersOf(1 + n * one)[lambda], 1 + n * (one * lambda), n * n)
    BY <1>3, <2>1, PowersOfOneMore, Zenon
  <2>3. Congruent(PowersOf(base)[lambda], 1 + n * lambda, n * n)
    BY <2>1, <2>2
  <2>4. (ModPow(base, lambda, n * n) - 1) \div n = lambda % n
    BY <1>2, <1>3, <2>1, <2>3, LogarithmIs
  <2> QED
    BY <2>4 DEF base
<1>5. rest \in Nat \ {0} /\ Congruent(rest, lambda, n)
  BY <1>1, <1>2, <1>3, CoprimeIsNotZero, DivisionIs, CongruentRemainder
<1> HIDE DEF rest
<1>6. mu \in Nat /\ OneModulo(rest * mu, n)
  <2>1. mu = ModInverse(rest, n)
    BY <1>1, <1>4
  <2>2. ModInverse(rest, n) \in Nat \union {DivisionByZero}
    BY <1>2, <1>5, InverseIs
  <2>3. IsInverse(rest, ModInverse(rest, n), n)
    BY <1>2, <1>5, InverseComputes
  <2> QED
    BY <1>1, <2>1, <2>2, <2>3 DEF IsInverse
<1>7. OneModulo(lambda * mu, n)
  <2> DEFINE a == rest * mu
             b == lambda * mu
             one == 1
  <2>1. a \in Int /\ b \in Int /\ n \in Int /\ one \in Int /\ Congruent(a, one, n)
    BY <1>2, <1>3, <1>5, <1>6 DEF OneModulo
  <2>2. Congruent(a, b, n)
    <3>1. Congruent(mu, mu, n)
      BY <1>2, <1>6, CongruentToItself
    <3> QED
      BY <1>2, <1>3, <1>5, <1>6, <3>1, CongruentProducts
  <2> HIDE DEF a, b, one
  <2>3. Congruent(b, one, n)
    BY <2>1, <2>2, CongruentBack, CongruentOver
  <2> QED
    BY <2>3 DEF OneModulo, b, one
<1> QED
  BY <1>1, <1>2, <1>3, <1>6, <1>7 DEF n, mu

(* A key pair that is made of numbers p and q with 2^(p - 1) = 1 modulo p  *)
(* and 2^(q - 1) = 1 modulo q works: 2^(n * lambda) is 1 modulo n, and the *)
(* trial shows that it is 1 modulo n * n.                                  *)
LEMMA KeyPairWorks ==
  ASSUME NEW p \in Nat \ {0, 1}, OneModulo(TwoTo[p - 1], p),
         NEW q \in Nat \ {0, 1}, OneModulo(TwoTo[q - 1], q),
         NEW pair, MadeOf(pair, p, q)
  PROVE  WorkingKey(pair.n, pair.lambda, pair.mu)
<1> DEFINE n == p * q
           lambda == Lcm(p - 1, q - 1)
           mu == pair.mu
           T == TestPlaintext
<1>1. /\ pair.n = n /\ pair.lambda = lambda
      /\ Decrypt(n, lambda, mu, Encrypt(n, T, 2)) = T
  BY Zenon DEF MadeOf
<1>2. n \in Nat \ {0, 1} /\ lambda \in Nat /\ Divides(p - 1, lambda) /\ Divides(q - 1, lambda)
  BY <1>1, MuInverts
<1>3. mu \in Nat /\ OneModulo(lambda * mu, n)
  BY <1>1, MuInverts
<1>4. OneModulo(TwoTo[lambda], p) /\ OneModulo(TwoTo[lambda], q)
  <2> HIDE DEF lambda
  <2> QED
    BY <1>2, FermatRaised
<1> HIDE DEF lambda, mu, T
<1>5. OneModulo(TwoTo[n * lambda], n)
  <2> DEFINE v == TwoTo[lambda]
  <2>1. v \in Nat
    BY <1>2, TwoToIs
  <2>2. OneModulo(v, p) /\ OneModulo(v, q)
    BY <1>4
  <2>3. PowersOf(v)[n] = TwoTo[lambda * n] /\ lambda * n = n * lambda
    <3> HIDE DEF n
    <3>1. PowersOf(TwoTo[lambda])[n] = TwoTo[lambda * n]
      BY <1>2, TwoToPower
    <3>2. lambda * n = n * lambda
      BY <1>2
    <3> QED
      BY <3>1, <3>2
  <2> HIDE DEF v
  <2>4. OneModulo(PowersOf(v)[p * q], p * q)
    BY <2>1, <2>2, PowersOfBoth
  <2> QED
    BY <2>3, <2>4
<1> HIDE DEF n
<1> DEFINE u == TwoTo[n * lambda]
<1>6. u \in Nat \ {0}
  <2> DEFINE t == n * lambda
  <2>1. t \in Nat
    BY <1>2, Products
  <2> HIDE DEF t
  <2>2. TwoTo[t] \in Nat \ {0}
    BY <2>1, TwoToIs
  <2> QED
    BY <2>2 DEF t
<1>7. PICK i \in Int : u = 1 + n * i
  BY <1>5 DEF OneModulo, Congruent
<1> HIDE DEF u
<1>8. i \in Nat
  <2> SUFFICES ASSUME i < 0 PROVE FALSE
    BY <1>7
  <2>1. n * (-i - 1) \in Nat
    BY <1>2, Products, -i - 1 \in Nat
  <2>2. n * i = -n - n * (-i - 1)
    BY <1>2
  <2> QED
    BY <1>2, <1>6, <1>7, <2>1, <2>2
<1>9. T \in Nat
  BY SizeAssumption DEF T
<1>10. Congruent(T, (T * lambda + i) * mu, n)
  BY <1>1, <1>2, <1>3, <1>7, <1>8, <1>9, TrialDecrypts DEF u
<1>11. OneModulo(1 + n * i, n * n)
  <2>1. n \in Nat /\ lambda \in Int /\ mu \in Int /\ T \in Int /\ i \in Int
    BY <1>2, <1>3, <1>8, <1>9
  <2> QED
    BY <1>3, <1>10, <2>1, TrialShows, Zenon
<1>12. OneModulo(u, n * n)
  BY <1>7, <1>11
<1> QED
  BY <1>1, <1>2, <1>3, <1>12 DEF WorkingKey, u, mu

-----------------------------------------------------------------------------
(* The primes that are found. *)
PassesFermat(p) == p \in Nat \ {0, 1} /\ OneModulo(TwoTo[p - 1], p)

(* A prime that is found is one for Fermat's theorem, and what is left of  *)
(* the draws are numbers.                                                  *)
LEMMA PrimeFound ==
  ASSUME NEW draws \in Seq(Nat), NEW numBits \in Nat \ {0},
         GenerateDeterministicPrime(draws, numBits).ok
  PROVE  /\ PassesFermat(GenerateDeterministicPrime(draws, numBits).prime)
         /\ GenerateDeterministicPrime(draws, numBits).rest \in Seq(Nat)
<1> DEFINE tried == {i \in DOMAIN draws : i <= MaxAttempts}
           good  == {i \in tried : Accepted(Candidate(draws[i], numBits))}
           first == CHOOSE i \in good : \A j \in good : i <= j
           found == [ok |-> TRUE, prime |-> Candidate(draws[first], numBits),
                     rest |-> SubSeq(draws, first + 1, Len(draws))]
<1>1. GenerateDeterministicPrime(draws, numBits) = IF good = {} THEN Failure("no prime") ELSE found
  BY DEF GenerateDeterministicPrime
<1>2. ~Failure("no prime").ok
  BY DEF Failure
<1>3. good # {} /\ GenerateDeterministicPrime(draws, numBits) = found
  <2> HIDE DEF good, found
  <2> QED
    BY <1>1, <1>2
<1>4. good \subseteq 1 .. Len(draws) /\ good \subseteq Nat
  OBVIOUS
<1>5. \E i \in good : \A j \in good : i <= j
  <2> HIDE DEF good
  <2> QED
    BY <1>3, <1>4, LeastNumber
<1>6. first \in good
  <2> HIDE DEF good
  <2> QED
    BY <1>5
<1>7. first \in 1 .. Len(draws) /\ draws[first] \in Nat /\ Accepted(Candidate(draws[first], numBits))
  <2> HIDE DEF first
  <2> QED
    BY <1>6
<1> HIDE DEF first, good, tried
<1> DEFINE c == Candidate(draws[first], numBits)
<1>8. c \in Nat /\ c % 2 = 1 /\ Accepted(c)
  BY <1>7, CandidatesAreOdd
<1>9. SubSeq(draws, first + 1, Len(draws)) \in Seq(Nat)
  BY <1>7, SubSeqProperties
<1>10. found.prime = c /\ found.rest = SubSeq(draws, first + 1, Len(draws))
  OBVIOUS
<1> HIDE DEF c, found
<1>11. PassesFermat(c)
  BY <1>8, AcceptedIsFermat DEF PassesFermat
<1> QED
  BY <1>3, <1>9, <1>10, <1>11

(* So the pair that is derived from an identity works.                     *)
LEMMA PairIs ==
  ASSUME NEW private \in Identities, Pair(private).ok
  PROVE  WorkingKey(Pair(private).n, Pair(private).lambda, Pair(private).mu)
<1> DEFINE draws == Draws[Normalized(private)]
           half == KeyBits \div 2
           p == GenerateDeterministicPrime(draws, half)
           q == GenerateDeterministicPrime(p.rest, half)
           pair == GenerateDeterministicKeyPair(draws)
<1>1. \A e : ~Failure(e).ok
  BY DEF Failure
<1>2. Pair(private) = DeriveVotingKeysFromECDH(private, "compressed", Draws)
  BY DEF Pair, Pairs
<1>3. Len(Normalized(private)) = PrivateLength /\ Pair(private) = pair
  <2> HIDE DEF pair
  <2>1. \/ DeriveVotingKeysFromECDH(private, "compressed", Draws) = Failure("private key length")
        \/ /\ Len(Normalized(private)) = PrivateLength
           /\ DeriveVotingKeysFromECDH(private, "compressed", Draws) = pair
    BY DEF DeriveVotingKeysFromECDH, pair
  <2> QED
    BY <1>1, <1>2, <2>1
<1>4. draws \in Seq(Nat)
  BY <1>3, DrawsAssumption
<1> HIDE DEF draws
<1>5. /\ KeyBits >= MinKeyBits /\ KeyBits % 2 = 0
      /\ pair = IF ~p.ok THEN p ELSE IF ~q.ok THEN q ELSE KeyPair(p.prime, q.prime)
  <2> HIDE DEF p, q
  <2>1. \/ pair = Failure("key too small") \/ pair = Failure("odd key size")
        \/ /\ KeyBits >= MinKeyBits /\ KeyBits % 2 = 0
           /\ pair = IF ~p.ok THEN p ELSE IF ~q.ok THEN q ELSE KeyPair(p.prime, q.prime)
    <3>1. CASE KeyBits < MinKeyBits
      <4>1. ~(KeyBits >= MinKeyBits)
        BY <3>1, SizeAssumption
      <4>2. pair = Failure("key too small")
        BY <3>1, <4>1 DEF GenerateDeterministicKeyPair
      <4> QED
        BY <4>2
    <3>2. CASE KeyBits >= MinKeyBits /\ KeyBits % 2 # 0
      BY <3>2, SizeAssumption DEF GenerateDeterministicKeyPair
    <3>3. CASE KeyBits >= MinKeyBits /\ KeyBits % 2 = 0
      BY <3>3, SizeAssumption DEF GenerateDeterministicKeyPair, p, q, half
    <3>4. KeyBits < MinKeyBits \/ (KeyBits >= MinKeyBits /\ KeyBits % 2 # 0)
            \/ (KeyBits >= MinKeyBits /\ KeyBits % 2 = 0)
      BY SizeAssumption
    <3> HIDE DEF pair
    <3> QED
      BY <3>1, <3>2, <3>3, <3>4
  <2> HIDE DEF pair
  <2> QED
    BY <1>1, <1>3, <2>1
<1>6. half \in Nat \ {0}
  BY <1>5, SizeAssumption
<1> HIDE DEF half, p, q, pair
<1>7. p.ok /\ q.ok /\ pair = KeyPair(p.prime, q.prime) /\ pair.ok
  BY <1>3, <1>5
<1>8. PassesFermat(p.prime) /\ p.rest \in Seq(Nat)
  BY <1>4, <1>6, <1>7, PrimeFound DEF p
<1>9. PassesFermat(q.prime)
  BY <1>6, <1>7, <1>8, PrimeFound DEF q
<1>10. MadeOf(pair, p.prime, q.prime)
  BY <1>7, KeyPairMade
<1>11. WorkingKey(pair.n, pair.lambda, pair.mu)
  BY <1>8, <1>9, <1>10, KeyPairWorks DEF PassesFermat
<1> QED
  BY <1>3, <1>11

-----------------------------------------------------------------------------
(* Primes. *)

(* A prime is divided by 1 and by itself.                                  *)
LEMMA PrimeDivisors ==
  ASSUME NEW n \in Nat, IsPrime(n), NEW d \in Nat, Divides(d, n)
  PROVE  d = 1 \/ d = n
<1>1. PICK e \in Nat : n = d * e
  BY DEF Divides
<1>2. n > 1 /\ \A k \in 2 .. n - 1 : k * k > n \/ n % k # 0
  BY DEF IsPrime
<1>3. d # 0 /\ e # 0
  BY <1>1, <1>2
<1>4. ASSUME NEW a \in Nat \ {0, 1}, NEW b \in Nat \ {0, 1}, n = a * b, a <= b PROVE FALSE
  <2>1. (b - 2) * a \in Nat /\ a * b = 2 * a + (b - 2) * a
    BY <1>4, Products
  <2>2. a \in 2 .. n - 1
    BY <1>4, <2>1
  <2>3. a * (b - a) \in Nat /\ a * b = a * a + a * (b - a)
    BY <1>4, Products
  <2>4. ~(a * a > n)
    BY <1>4, <2>3
  <2>5. n % a = 0
    <3>1. (a * b) % a = 0
      <4> DEFINE x == a * b
                 q == x \div a
                 s == x % a
      <4>1. x \in Nat
        BY <1>4, Products
      <4>2. q = b
        BY <1>4, ExactDivision
      <4>3. x = a * q + s /\ s \in Nat
        <5> HIDE DEF x
        <5> QED
          BY <1>4, <4>1, DivisionIs
      <4> HIDE DEF q, s
      <4>4. s = 0
        BY <4>2, <4>3
      <4> QED
        BY <4>4 DEF s
    <3> QED
      BY <1>4, <3>1
  <2> QED
    BY <1>2, <2>2, <2>4, <2>5
<1>5. SUFFICES ASSUME d # 1, e # 1 PROVE FALSE
  BY <1>1
<1>6. d * e = e * d
  BY <1>1
<1>7. CASE d <= e
  BY <1>1, <1>3, <1>4, <1>5, <1>7
<1>8. CASE e <= d
  BY <1>1, <1>3, <1>4, <1>5, <1>6, <1>8
<1> QED
  BY <1>1, <1>7, <1>8

(* A prime that divides a product divides one of its factors: the least    *)
(* number whose product with a it divides, divides it.                     *)
LEMMA PrimeDividesFactor ==
  ASSUME NEW n \in Nat, IsPrime(n), NEW a \in Nat, NEW b \in Nat, Divides(n, a * b)
  PROVE  Divides(n, a) \/ Divides(n, b)
<1> DEFINE S == {y \in Nat : y # 0 /\ Divides(n, a * y)}
<1>1. n \in S
  <2>1. n # 0 /\ a * n = n * a
    BY DEF IsPrime
  <2> QED
    BY <2>1 DEF Divides
<1>2. PICK m \in S : \A y \in S : m <= y
  <2> HIDE DEF S
  <2>1. S \in SUBSET Nat
    BY DEF S
  <2> QED
    BY <1>1, <2>1, LeastNumber
<1>3. m \in Nat \ {0} /\ Divides(n, a * m)
  BY <1>2
<1>4. PICK i \in Nat : a * m = n * i
  BY <1>3 DEF Divides
<1>5. ASSUME NEW y \in Nat, Divides(n, a * y) PROVE Divides(m, y)
  <2> DEFINE q == y \div m
             r == y % m
  <2>1. q \in Nat /\ r \in Nat /\ r < m /\ y = m * q + r
    BY <1>3, DivisionIs
  <2> HIDE DEF q, r
  <2>2. PICK j \in Nat : a * y = n * j
    BY <1>5 DEF Divides
  <2>3. a * r = n * (j - i * q)
    <3>1. a * (m * q + r) = (a * m) * q + a * r
      BY <1>3, <2>1
    <3>2. (n * i) * q = n * (i * q) /\ n * (j - i * q) = n * j - n * (i * q)
      BY <2>1
    <3> QED
      BY <1>3, <1>4, <2>1, <2>2, <3>1, <3>2
  <2> DEFINE k == j - i * q
  <2>4. k \in Int /\ a * r = n * k /\ a * r \in Nat /\ n > 1
    BY <2>1, <2>3, Products DEF IsPrime
  <2> HIDE DEF k
  <2>5. k \in Nat
    <3> SUFFICES ASSUME k < 0 PROVE FALSE
      BY <2>4
    <3>1. n * (-k - 1) \in Nat /\ -k - 1 \in Nat
      BY <2>4, Products
    <3>2. n * k = -n - n * (-k - 1)
      BY <2>4
    <3> QED
      BY <2>4, <3>1, <3>2
  <2>6. Divides(n, a * r)
    BY <2>4, <2>5 DEF Divides
  <2>7. r = 0
    <3>1. r # 0 => r \in S
      BY <2>1, <2>6
    <3> QED
      BY <1>2, <1>3, <2>1, <3>1
  <2>8. y = m * q
    BY <1>3, <2>1, <2>7
  <2> QED
    BY <2>1, <2>8 DEF Divides
<1> HIDE DEF S
<1>6. Divides(m, b)
  BY <1>5
<1>7. Divides(m, n)
  <2>1. a * n = n * a
    OBVIOUS
  <2>2. Divides(n, a * n)
    BY <2>1 DEF Divides
  <2> QED
    BY <1>5, <2>2
<1>8. CASE m = 1
  <2>1. a * m = a
    BY <1>8
  <2> QED
    BY <1>3, <2>1
<1>9. CASE m = n
  BY <1>6, <1>9
<1> QED
  BY <1>3, <1>7, <1>8, <1>9, PrimeDivisors

(* The same for integers: what is not a multiple may be left out.          *)
LEMMA PrimeCancels ==
  ASSUME NEW n \in Nat, IsPrime(n), NEW a \in 1 .. n - 1, NEW b \in Int, Congruent(a * b, 0, n)
  PROVE  Congruent(b, 0, n)
<1>1. PICK j \in Int : a * b = n * j
  BY DEF Congruent
<1>2. n \in Nat \ {0, 1} /\ a \in Nat /\ a # 0
  BY DEF IsPrime
<1>3. ASSUME NEW c \in Nat, NEW k \in Int, a * c = n * k PROVE \E i \in Nat : c = n * i
  <2>1. a * c \in Nat
    BY <1>2, Products
  <2>2. k \in Nat
    <3> SUFFICES ASSUME k < 0 PROVE FALSE
      BY <1>3
    <3>1. n * (-k - 1) \in Nat /\ -k - 1 \in Nat
      BY <1>3, Products
    <3>2. n * k = -n - n * (-k - 1)
      BY <1>3
    <3> QED
      BY <1>2, <1>3, <2>1, <3>1, <3>2
  <2>3. Divides(n, a * c)
    BY <1>3, <2>2 DEF Divides
  <2>4. ~Divides(n, a)
    <3> SUFFICES ASSUME NEW i \in Nat, a = n * i PROVE FALSE
      BY DEF Divides
    <3>1. i # 0
      BY <1>2
    <3>2. n * (i - 1) \in Nat /\ n * i = n + n * (i - 1)
      BY <3>1, Products
    <3> QED
      BY <3>2
  <2>5. Divides(n, c)
    BY <1>2, <2>3, <2>4, PrimeDividesFactor
  <2> QED
    BY <2>5 DEF Divides
<1>4. CASE b \in Nat
  <2>1. PICK i \in Nat : b = n * i
    BY <1>1, <1>3, <1>4
  <2> QED
    BY <2>1 DEF Congruent
<1>5. CASE -b \in Nat
  <2> DEFINE c == -b
             k == -j
  <2>1. a * c = n * k
    <3>1. a * (-b) = -(a * b) /\ n * (-j) = -(n * j)
      BY <1>1, <1>2
    <3> QED
      BY <1>1, <3>1
  <2>2. c \in Nat /\ k \in Int
    BY <1>5
  <2> HIDE DEF c, k
  <2>3. PICK i \in Nat : c = n * i
    BY <1>3, <2>1, <2>2
  <2>4. b = 0 + n * (-i)
    <3>1. n * (-i) = -(n * i) /\ b = -c
      BY DEF c
    <3> QED
      BY <2>3, <3>1
  <2> QED
    BY <2>4 DEF Congruent
<1> QED
  BY <1>4, <1>5

(* No power of a number below a prime can be left out of less than that.   *)
LEMMA PowersCancel ==
  ASSUME NEW n \in Nat, IsPrime(n), NEW a \in 1 .. n - 1
  PROVE  \A k \in Nat : \A b \in Int : Congruent(PowersOf(a)[k] * b, 0, n) => Congruent(b, 0, n)
<1> DEFINE f == PowersOf(a)
           zero == 0
           P == {k \in Nat : \A b \in Int : Congruent(f[k] * b, zero, n) => Congruent(b, zero, n)}
<1>1. f[0] = 1 /\ (\A k \in Nat : f[k + 1] = a * f[k]) /\ \A k \in Nat : f[k] \in Int
  BY PowersGoOn, PowersAreIntegers
<1> HIDE DEF f
<1>2. \A b \in Int : Congruent(a * b, zero, n) => Congruent(b, zero, n)
  BY PrimeCancels
<1> HIDE DEF zero
<1>3. 0 \in P
  <2>1. \A b \in Int : f[0] * b = b
    BY <1>1
  <2> QED
    BY <2>1
<1>4. ASSUME NEW k \in Nat, k \in P PROVE k + 1 \in P
  <2> SUFFICES ASSUME NEW b \in Int, Congruent(f[k + 1] * b, zero, n) PROVE Congruent(b, zero, n)
    OBVIOUS
  <2> DEFINE u == f[k]
  <2>1. u \in Int /\ f[k + 1] = a * u
    BY <1>1
  <2> HIDE DEF u
  <2> DEFINE c == u * b
  <2>2. c \in Int /\ (a * u) * b = a * c
    BY <2>1
  <2>3. Congruent(a * c, zero, n)
    BY <2>1, <2>2
  <2> HIDE DEF c
  <2>4. Congruent(c, zero, n)
    BY <1>2, <2>2, <2>3
  <2> QED
    BY <1>4, <2>4 DEF c, u
<1> HIDE DEF P
<1>5. \A k \in Nat : k \in P
  BY <1>3, <1>4, NumbersInduction
<1> QED
  BY <1>5 DEF P, f, zero

(* 1 is not a multiple of a prime. *)
LEMMA OneIsNotZero == ASSUME NEW n \in Nat \ {0, 1} PROVE ~Congruent(1, 0, n)
<1> SUFFICES ASSUME NEW j \in Int, 1 = n * j PROVE FALSE
  BY DEF Congruent
<1>1. CASE j > 0
  <2>1. n * (j - 1) \in Nat /\ n * j = n + n * (j - 1)
    BY <1>1, Products
  <2> QED
    BY <2>1
<1>2. CASE j <= 0
  <2>1. n * (-j) \in Nat /\ n * (-j) = -(n * j)
    BY <1>2, Products
  <2> QED
    BY <2>1
<1> QED
  BY <1>1, <1>2

(* A difference that is zero, and what is equal.                           *)
LEMMA CongruentDifference ==
  ASSUME NEW a \in Int, NEW b \in Int, NEW m \in Int
  PROVE  Congruent(a - b, 0, m) <=> Congruent(a, b, m)
<1>1. \A j \in Int : a - b = 0 + m * j <=> a = b + m * j
  OBVIOUS
<1> QED
  BY <1>1 DEF Congruent

(* A power of a number below a prime leaves something.                     *)
LEMMA PowersAreNotZero ==
  ASSUME NEW n \in Nat, IsPrime(n), NEW a \in 1 .. n - 1, NEW k \in Nat
  PROVE  PowersOf(a)[k] \in Nat /\ PowersOf(a)[k] % n \in 1 .. n - 1
<1> DEFINE p == PowersOf(a)[k]
           one == 1
           zero == 0
<1>1. n \in Nat \ {0, 1} /\ a \in Nat
  BY DEF IsPrime
<1>2. p \in Nat
  BY <1>1, PowersAreNumbers
<1>3. p * one = p /\ one \in Int /\ zero \in Int
  BY <1>2
<1>4. Congruent(p * one, zero, n) => Congruent(one, zero, n)
  <2> HIDE DEF one
  <2> QED
    BY <1>3, PowersCancel
<1>5. ~Congruent(one, zero, n)
  BY <1>1, OneIsNotZero
<1> HIDE DEF p, one, zero
<1>6. Congruent(p % n, p, n) /\ p % n \in 0 .. n - 1
  BY <1>1, <1>2, CongruentRemainder
<1>7. p % n # zero
  <2> SUFFICES ASSUME p % n = zero PROVE FALSE
    OBVIOUS
  <2>1. Congruent(zero, p, n)
    BY <1>6
  <2>2. Congruent(p, zero, n)
    BY <1>1, <1>2, <1>3, <2>1, CongruentBack
  <2> QED
    BY <1>3, <1>4, <1>5, <2>2
<1> QED
  BY <1>2, <1>6, <1>7 DEF p, zero

(* A power of it is 1: there are fewer remainders than exponents.          *)
LEMMA SomePowerIsOne ==
  ASSUME NEW n \in Nat, IsPrime(n), NEW a \in 1 .. n - 1
  PROVE  \E k \in Nat \ {0} : OneModulo(PowersOf(a)[k], n)
<1> DEFINE low == 1
           top == n - 1
           D == low .. n
           R == low .. top
           f == [i \in D |-> PowersOf(a)[i] % n]
<1>1. n \in Nat \ {0, 1} /\ low \in Int /\ top \in Int /\ n - low + 1 = n /\ top - low + 1 = n - 1
      /\ ~(low > n) /\ ~(low > top)
  BY DEF IsPrime
<1>2. f \in [D -> R]
  <2>1. \A i \in D : i \in Nat
    OBVIOUS
  <2>2. \A i \in D : PowersOf(a)[i] % n \in R
    BY <2>1, PowersAreNotZero
  <2> HIDE DEF D, R
  <2> QED
    BY <2>2
<1>3. IsFiniteSet(D) /\ Cardinality(D) = n /\ IsFiniteSet(R) /\ Cardinality(R) = n - 1
  <2> HIDE DEF low, top
  <2> QED
    BY <1>1, FS_Interval
<1>4. \E i, j \in D : i # j /\ f[i] = f[j]
  <2>1. Cardinality(R) < Cardinality(D)
    BY <1>3
  <2> HIDE DEF D, R, f
  <2> QED
    BY <1>2, <1>3, <2>1, FS_PigeonHole
<1>5. ASSUME NEW i \in D, NEW j \in D, i < j, f[i] = f[j]
      PROVE  j - i \in Nat \ {0} /\ OneModulo(PowersOf(a)[j - i], n)
  <2> DEFINE k == j - i
             u == PowersOf(a)[i]
             v == PowersOf(a)[k]
             w == PowersOf(a)[j]
             r == u % n
             s == w % n
  <2>1. k \in Nat \ {0} /\ i \in Nat /\ j = i + k /\ j \in Nat /\ a \in Nat
    BY <1>5
  <2>2. r = s
    BY <1>5
  <2> HIDE DEF k
  <2>3. u \in Nat /\ v \in Nat /\ w \in Nat
    BY <2>1, PowersAreNumbers
  <2>4. w = u * v
    <3>1. PowersOf(a)[i + k] = u * v
      BY <2>1, PowerOfSum
    <3> QED
      BY <2>1, <3>1
  <2> DEFINE e == v - 1
  <2>5. Congruent(u * e, 0, n)
    <3> HIDE DEF u, v, w
    <3>1. Congruent(r, u, n) /\ Congruent(s, w, n) /\ r \in Int /\ s \in Int
      <4>1. \A x \in Nat : Congruent(x % n, x, n) /\ x % n \in 0 .. n - 1
        BY <1>1, CongruentRemainder
      <4>2. \A x \in Nat : x % n \in Int
        BY <1>1
      <4> QED
        BY <2>3, <4>1, <4>2
    <3>2. Congruent(w, r, n)
      BY <1>1, <2>2, <2>3, <3>1, CongruentBack
    <3>3. Congruent(w, u, n)
      BY <1>1, <2>3, <3>1, <3>2, CongruentOver
    <3>4. w - u = u * e
      BY <2>3, <2>4
    <3>5. Congruent(w - u, 0, n)
      BY <1>1, <2>3, <3>3, CongruentDifference
    <3> QED
      BY <3>4, <3>5
  <2>6. e \in Int
    BY <2>3
  <2> HIDE DEF e
  <2>7. Congruent(e, 0, n)
    BY <2>1, <2>5, <2>6, PowersCancel
  <2> HIDE DEF v
  <2>8. Congruent(v, 1, n)
    <3> DEFINE one == 1
    <3>1. Congruent(v - one, 0, n) /\ one \in Int /\ v \in Int
      BY <2>3, <2>7 DEF e
    <3> HIDE DEF one
    <3>2. Congruent(v, one, n)
      BY <1>1, <3>1, CongruentDifference
    <3> QED
      BY <3>2 DEF one
  <2> QED
    BY <2>1, <2>8 DEF OneModulo, v, k
<1> HIDE DEF f
<1>6. \A i, j \in D : i < j \/ j < i \/ i = j
  OBVIOUS
<1> HIDE DEF D
<1> QED
  BY <1>4, <1>5, <1>6

(* The least such exponent is the one after which multiplying comes back.  *)
LEMMA OrderThereIs ==
  ASSUME NEW n \in Nat, IsPrime(n), NEW a \in 1 .. n - 1
  PROVE  \E N \in Nat \ {0} : TurnsAround(a, n, N)
<1> DEFINE K == {k \in Nat : k # 0 /\ OneModulo(PowersOf(a)[k], n)}
<1>1. K # {}
  BY SomePowerIsOne
<1>2. PICK N \in K : \A k \in K : N <= k
  <2>1. K \in SUBSET Nat
    OBVIOUS
  <2> HIDE DEF K
  <2> QED
    BY <1>1, <2>1, LeastNumber
<1>3. N \in Nat \ {0} /\ OneModulo(PowersOf(a)[N], n)
  BY <1>2
<1>4. ASSUME NEW x \in 1 .. n - 1, NEW k \in 1 .. N - 1 PROVE ~Congruent(x * PowersOf(a)[k], x, n)
  <2> SUFFICES ASSUME Congruent(x * PowersOf(a)[k], x, n) PROVE FALSE
    OBVIOUS
  <2> DEFINE p == PowersOf(a)[k]
             one == 1
             e == p - one
             y == x * p
  <2>1. k \in Nat /\ k # 0 /\ k < N
    BY <1>3
  <2>2. p \in Int /\ one \in Int
    BY <2>1, PowersAreIntegers
  <2>3. Congruent(y, x, n)
    OBVIOUS
  <2> HIDE DEF p
  <2>4. y - x = x * e /\ y \in Int /\ e \in Int /\ n \in Int /\ x \in Int
    BY <2>2
  <2> HIDE DEF y, e
  <2>5. Congruent(x * e, 0, n)
    BY <2>3, <2>4, CongruentDifference
  <2>6. Congruent(e, 0, n)
    BY <2>4, <2>5, PrimeCancels
  <2> HIDE DEF one
  <2>7. Congruent(p, one, n)
    BY <2>2, <2>4, <2>6, CongruentDifference DEF e
  <2>8. k \in K
    BY <2>1, <2>7 DEF OneModulo, one, p
  <2> QED
    BY <1>2, <1>3, <2>1, <2>8
<1> QED
  BY <1>3, <1>4 DEF TurnsAround

(* Fermat's theorem. *)
LEMMA Fermat ==
  ASSUME NEW n \in Nat, IsPrime(n), NEW a \in 1 .. n - 1
  PROVE  OneModulo(PowersOf(a)[n - 1], n)
<1>1. n \in Nat \ {0, 1} /\ a \in Nat
  BY DEF IsPrime
<1>2. PICK N \in Nat \ {0} : TurnsAround(a, n, N)
  BY OrderThereIs
<1>3. PICK q \in Nat : n - 1 = N * q
  BY <1>1, <1>2, TurningDivides
<1> DEFINE u == PowersOf(a)[N]
<1>4. u \in Int /\ OneModulo(u, n)
  BY <1>1, <1>2, PowersAreIntegers DEF TurnsAround
<1>5. PowersOf(u)[q] = PowersOf(a)[N * q]
  BY <1>1, PowerOfPower
<1> HIDE DEF u
<1>6. OneModulo(PowersOf(u)[q], n)
  BY <1>4, PowersOfOneModulo
<1> QED
  BY <1>3, <1>5, <1>6

(* Modulo a prime only 1 and -1 have the square 1.                         *)
LEMMA RootsOfOne ==
  ASSUME NEW n \in Nat, IsPrime(n), NEW b \in Nat, OneModulo(b * b, n)
  PROVE  OneModulo(b, n) \/ MinusOneModulo(b, n)
<1>1. n \in Nat \ {0, 1}
  BY DEF IsPrime
<1>2. PICK j \in Int : b * b = 1 + n * j
  BY DEF OneModulo, Congruent
<1>3. CASE b = 0
  <2>1. 1 = 0 + n * (-j)
    BY <1>2, <1>3
  <2>2. Congruent(1, 0, n)
    BY <2>1 DEF Congruent
  <2> QED
    BY <1>1, <2>2, OneIsNotZero
<1>4. CASE b # 0
  <2> DEFINE c == b - 1
             d == b + 1
  <2>1. c \in Nat /\ d \in Nat /\ c * d = b * b - 1
    BY <1>4
  <2>2. c * d = n * j
    BY <1>2, <2>1
  <2>3. c * d \in Nat
    BY <2>1, Products
  <2>4. j \in Nat
    <3> SUFFICES ASSUME j < 0 PROVE FALSE
      BY <1>2
    <3>1. n * (-j - 1) \in Nat /\ -j - 1 \in Nat
      BY Products
    <3>2. n * j = -n - n * (-j - 1)
      OBVIOUS
    <3> HIDE DEF c, d
    <3> QED
      BY <1>1, <2>2, <2>3, <3>1, <3>2
  <2> HIDE DEF c, d
  <2>5. Divides(n, c * d)
    BY <2>2, <2>4 DEF Divides
  <2>6. Divides(n, c) \/ Divides(n, d)
    BY <2>1, <2>5, PrimeDividesFactor
  <2>7. ASSUME NEW i \in Nat, c = n * i PROVE OneModulo(b, n)
    <3>1. b = 1 + n * i
      BY <2>7 DEF c
    <3> QED
      BY <3>1 DEF OneModulo, Congruent
  <2>8. ASSUME NEW i \in Nat, d = n * i PROVE MinusOneModulo(b, n)
    <3>1. b = -1 + n * i
      BY <2>8 DEF d
    <3> QED
      BY <3>1 DEF MinusOneModulo, Congruent
  <2> QED
    BY <2>6, <2>7, <2>8 DEF Divides
<1> QED
  BY <1>3, <1>4

(* So every number below a prime is a witness for it: the square root of 1 *)
(* is taken until it is -1 or the exponent is odd.                         *)
LEMMA PrimeIsWitnessed ==
  ASSUME NEW n \in Nat, IsPrime(n), NEW a \in 1 .. n - 1,
         NEW r \in Nat, NEW d \in Nat, n - 1 = TwoTo[r] * d
  PROVE  Witnessed(a, n, r, d)
<1> SUFFICES ASSUME \A i \in 0 .. r - 1 : ~MinusOneModulo(PowersOf(a)[d * TwoTo[i]], n)
             PROVE  OneModulo(PowersOf(a)[d], n)
  BY DEF Witnessed
<1> DEFINE P == {l \in Nat : l <= r => OneModulo(PowersOf(a)[d * TwoTo[r - l]], n)}
<1>1. 0 \in P
  <2>1. TwoTo[r] \in Nat
    BY TwoToIs
  <2>2. d * TwoTo[r] = n - 1 /\ r - 0 = r
    BY <2>1
  <2>3. OneModulo(PowersOf(a)[n - 1], n)
    BY Fermat
  <2> QED
    BY <2>2, <2>3
<1>2. ASSUME NEW l \in Nat, l \in P PROVE l + 1 \in P
  <2> SUFFICES ASSUME l + 1 <= r PROVE OneModulo(PowersOf(a)[d * TwoTo[r - (l + 1)]], n)
    OBVIOUS
  <2> DEFINE i == r - (l + 1)
             t == TwoTo[i]
             e == d * t
             b == PowersOf(a)[e]
  <2>1. i \in 0 .. r - 1 /\ i \in Nat /\ r - l = i + 1
    OBVIOUS
  <2>2. OneModulo(PowersOf(a)[d * TwoTo[r - l]], n)
    BY <1>2
  <2> HIDE DEF i
  <2>3. t \in Nat /\ TwoTo[i + 1] = 2 * t
    BY <2>1, TwoToIs
  <2>4. ~MinusOneModulo(b, n)
    BY <2>1
  <2> HIDE DEF t, P
  <2>5. e \in Nat /\ d * (2 * t) = e + e
    BY <2>3, Products
  <2>6. OneModulo(PowersOf(a)[e + e], n)
    BY <2>1, <2>2, <2>3, <2>5
  <2> HIDE DEF e
  <2>7. PowersOf(a)[e + e] = b * b /\ b \in Nat
    <3>1. a \in Nat /\ a \in Int
      OBVIOUS
    <3> QED
      BY <2>5, <3>1, PowerOfSum, PowersAreNumbers
  <2> HIDE DEF b
  <2>8. OneModulo(b, n)
    BY <2>4, <2>6, <2>7, RootsOfOne
  <2> QED
    BY <2>8 DEF b, e, t, i
<1> HIDE DEF P
<1>3. r \in P
  BY <1>1, <1>2, NumbersInduction
<1>4. OneModulo(PowersOf(a)[d * TwoTo[0]], n)
  <2>1. r - r = 0
    OBVIOUS
  <2> QED
    BY <1>3, <2>1 DEF P
<1>5. d * TwoTo[0] = d
  BY TwoToIs
<1> QED
  BY <1>4, <1>5

(* The primality test never refuses a prime, whichever rounds it has and   *)
(* whatever witnesses the digests give (voting.service.ts millerRabinTest).*)
THEOREM PrimesPassTheTest ==
  ASSUME NEW n \in Nat, IsPrime(n), NEW k \in Nat, NEW digests \in SUBSET Nat
  PROVE  MillerRabinTest(n, k, digests)
<1>1. n \in Nat \ {0, 1} /\ \A d \in 2 .. n - 1 : d * d > n \/ n % d # 0
  BY DEF IsPrime
<1>2. CASE n \in {2, 3}
  BY <1>2 DEF MillerRabinTest
<1>3. CASE n \notin {2, 3}
  <2>1. n # 4
    <3>1. 2 \in 2 .. 4 - 1 /\ ~(2 * 2 > 4) /\ 4 % 2 = 0
      OBVIOUS
    <3> QED
      BY <1>1, <3>1
  <2>2. n >= 5
    BY <1>1, <1>3, <2>1
  <2>3. n % 2 = 1
    <3>1. 2 \in 2 .. n - 1 /\ ~(2 * 2 > n)
      BY <2>2
    <3>2. n % 2 # 0
      BY <1>1, <3>1
    <3> QED
      BY <3>2
  <2>4. ASSUME NEW a \in Witnesses(n, k, digests) PROVE a \in 1 .. n - 1
    <3> DEFINE m == IF k < 12 THEN k ELSE 12
    <3>1. \A i \in 1 .. m : WitnessPrimes[i] \in Nat
      <4>1. \A i \in 1 .. 12 : WitnessPrimes[i] \in Nat
        BY DEF WitnessPrimes
      <4>2. \A i \in 1 .. m : i \in 1 .. 12
        OBVIOUS
      <4> QED
        BY <4>1, <4>2
    <3>2. \A h \in Nat : /\ (h % (n - 2)) + 2 \in 1 .. n - 1
                         /\ (h % (n - 3)) + 2 \in 1 .. n - 1
      BY <2>2
    <3> HIDE DEF m
    <3>3. \/ \E i \in 1 .. m : a = (WitnessPrimes[i] % (n - 2)) + 2
          \/ \E h \in digests : a = (h % (n - 3)) + 2
      BY DEF Witnesses, m
    <3> QED
      BY <3>1, <3>2, <3>3
  <2>5. ASSUME NEW a \in Witnesses(n, k, digests) PROVE WitnessLoop(a, n)
    <3>1. a \in Nat /\ a \in 1 .. n - 1
      BY <2>4
    <3>2. PICK r \in Nat \ {0} : \E d \in Nat :
             /\ d % 2 = 1 /\ n - 1 = TwoTo[r] * d
             /\ WitnessLoop(a, n) <=> Witnessed(a, n, r, d)
      BY <1>1, <2>3, <3>1, WitnessMeans
    <3>3. PICK d \in Nat : /\ n - 1 = TwoTo[r] * d
                           /\ WitnessLoop(a, n) <=> Witnessed(a, n, r, d)
      BY <3>2
    <3> QED
      BY <3>1, <3>3, PrimeIsWitnessed
  <2> QED
    BY <1>3, <2>2, <2>5 DEF MillerRabinTest
<1> QED
  BY <1>2, <1>3

(* So a prime candidate is accepted, and generating a prime fails only     *)
(* when none of the candidates it tries is one (voting.service.ts          *)
(* generateDeterministicPrime).                                            *)
THEOREM PrimesAreAccepted ==
  ASSUME NEW c \in Nat, IsPrime(c)
  PROVE  Accepted(c)
<1>1. MillerRabinTest(c, TestRounds, {})
  BY SizeAssumption, PrimesPassTheTest
<1>2. ASSUME NEW p \in SmallPrimes, c % p = 0 PROVE c = p
  <2>1. p \in Nat \ {0, 1}
    BY DEF SmallPrimes
  <2> DEFINE q == c \div p
             s == c % p
  <2>2. q \in Nat /\ c = p * q + s
    BY <2>1, DivisionIs
  <2>3. s = 0
    BY <1>2
  <2> HIDE DEF q, s
  <2>4. c = p * q
    BY <2>1, <2>2, <2>3
  <2>5. Divides(p, c)
    BY <2>2, <2>4 DEF Divides
  <2> QED
    BY <2>1, <2>5, PrimeDivisors
<1> QED
  BY <1>1, <1>2 DEF Accepted

-----------------------------------------------------------------------------
(* Encryption with any random factor. *)

(* By Fermat, a power of a number with an exponent that p - 1 divides      *)
(* leaves 1 modulo the prime p, unless p divides the number.               *)
LEMMA FermatForAll ==
  ASSUME NEW p \in Nat, IsPrime(p), NEW a \in Nat, ~Divides(p, a), NEW e \in Nat, Divides(p - 1, e)
  PROVE  OneModulo(PowersOf(a)[e], p)
<1> DEFINE r == a % p
           k == p - 1
           u == PowersOf(a)[k]
           w == PowersOf(r)[k]
           one == 1
<1>1. p \in Nat \ {0, 1} /\ k \in Nat /\ one \in Int
  BY DEF IsPrime
<1>2. Congruent(r, a, p) /\ r \in 0 .. p - 1
  BY <1>1, CongruentRemainder
<1>3. r # 0
  <2> SUFFICES ASSUME r = 0 PROVE Divides(p, a)
    OBVIOUS
  <2>1. a \div p \in Nat /\ a = p * (a \div p) + r
    BY <1>1, DivisionIs
  <2> DEFINE d == a \div p
  <2>2. d \in Nat /\ a = p * d + 0
    BY <2>1
  <2> HIDE DEF d
  <2>3. a = p * d
    BY <2>2
  <2> QED
    BY <2>2, <2>3 DEF Divides
<1> HIDE DEF r
<1>4. r \in 1 .. p - 1 /\ r \in Int
  BY <1>1, <1>2, <1>3
<1>5. OneModulo(w, p)
  BY <1>4, Fermat
<1>6. w \in Int /\ u \in Int
  <2> HIDE DEF k
  <2> QED
    BY <1>1, <1>4, PowersAreIntegers
<1>7. Congruent(w, u, p)
  <2> HIDE DEF k
  <2>1. r \in Int /\ a \in Int /\ p \in Int
    BY <1>4
  <2> QED
    BY <1>1, <1>2, <2>1, CongruentPowers
<1> HIDE DEF u, w, one
<1>8. Congruent(w, one, p)
  BY <1>5 DEF OneModulo, one
<1>9. Congruent(u, one, p)
  <2>1. p \in Int
    OBVIOUS
  <2>2. Congruent(u, w, p)
    BY <1>6, <1>7, <2>1, CongruentBack
  <2> QED
    BY <1>1, <1>6, <1>8, <2>1, <2>2, CongruentOver
<1>10. OneModulo(u, p)
  BY <1>9 DEF OneModulo, one
<1>11. PICK j \in Nat : e = k * j
  BY DEF Divides
<1>12. OneModulo(PowersOf(u)[j], p)
  <2>1. p \in Int
    OBVIOUS
  <2> QED
    BY <1>6, <1>10, <1>11, <2>1, PowersOfOneModulo
<1> HIDE DEF k
<1>13. PowersOf(u)[j] = PowersOf(a)[k * j]
  <2>1. a \in Int
    OBVIOUS
  <2> QED
    BY <1>1, <1>11, <2>1, PowerOfPower DEF u
<1> QED
  BY <1>11, <1>12, <1>13

(* A number that leaves 1 modulo two different primes leaves 1 modulo      *)
(* their product.                                                          *)
LEMMA OneModuloBoth ==
  ASSUME NEW p \in Nat, IsPrime(p), NEW q \in Nat, IsPrime(q), p # q,
         NEW v \in Nat, OneModulo(v, p), OneModulo(v, q)
  PROVE  OneModulo(v, p * q)
<1>1. PICK i \in Int : v = 1 + p * i
  BY DEF OneModulo, Congruent
<1>2. PICK j \in Int : v = 1 + q * j
  BY DEF OneModulo, Congruent
<1>3. p \in Nat \ {0, 1} /\ q \in Nat \ {0, 1}
  BY DEF IsPrime
<1>4. ASSUME NEW m \in Nat \ {0, 1}, NEW k \in Int, v = 1 + m * k PROVE k \in Nat
  <2> SUFFICES ASSUME k < 0 PROVE FALSE
    OBVIOUS
  <2>1. -k - 1 \in Nat
    OBVIOUS
  <2>2. m * (-k - 1) \in Nat
    BY <2>1, Products
  <2>3. m * k = -m - m * (-k - 1)
    OBVIOUS
  <2> QED
    BY <1>4, <2>2, <2>3
<1>5. i \in Nat /\ j \in Nat
  BY <1>1, <1>2, <1>3, <1>4
<1>6. p * i = q * j
  BY <1>1, <1>2
<1>7. Divides(q, p * i)
  BY <1>5, <1>6 DEF Divides
<1>8. Divides(q, p) \/ Divides(q, i)
  BY <1>5, <1>7, PrimeDividesFactor
<1>9. ~Divides(q, p)
  BY <1>3, PrimeDivisors
<1>10. PICK l \in Nat : i = q * l
  BY <1>8, <1>9 DEF Divides
<1>11. p * (q * l) = (p * q) * l
  OBVIOUS
<1>12. v = 1 + (p * q) * l
  BY <1>1, <1>10, <1>11
<1> QED
  BY <1>12 DEF OneModulo, Congruent

(* A number that is prime to the modulus is divided by none of its primes. *)
LEMMA CoprimeIsNotDivided ==
  ASSUME NEW p \in Nat, IsPrime(p), NEW n \in Nat, Divides(p, n),
         NEW a \in Nat \ {0}, Gcd(a, n) = 1
  PROVE  ~Divides(p, a)
<1> SUFFICES ASSUME Divides(p, a) PROVE FALSE
  OBVIOUS
<1> DEFINE g == Gcd(a, n)
<1>1. CommonDivisor(g, a, n) /\ g = 1
  BY GcdComputes
<1> HIDE DEF g
<1>2. Divides(p, g)
  BY <1>1 DEF CommonDivisor
<1>3. PICK j \in Nat : 1 = p * j
  BY <1>1, <1>2 DEF Divides
<1>4. p > 1 /\ j # 0
  BY <1>3 DEF IsPrime
<1>5. p * (j - 1) \in Nat /\ p * j = p + p * (j - 1)
  BY <1>4, Products
<1> QED
  BY <1>3, <1>4, <1>5

(* The n-th power of such a number leaves 1 modulo n * n when it is raised *)
(* to lambda.                                                              *)
LEMMA AnyFactorVanishes ==
  ASSUME NEW p \in Nat, IsPrime(p), NEW q \in Nat, IsPrime(q), p # q,
         NEW n \in Nat \ {0, 1}, n = p * q,
         NEW lambda \in Nat, Divides(p - 1, lambda), Divides(q - 1, lambda),
         NEW factor \in Nat \ {0}, Gcd(factor, n) = 1
  PROVE  OneModulo(PowersOf(PowersOf(factor)[n])[lambda], n * n)
<1> DEFINE v == PowersOf(factor)[lambda]
           b == PowersOf(factor)[n]
           s == n * n
<1>1. Divides(p, n) /\ Divides(q, n)
  <2>1. n = q * p
    OBVIOUS
  <2> QED
    BY <2>1 DEF Divides
<1>2. ~Divides(p, factor) /\ ~Divides(q, factor)
  BY <1>1, CoprimeIsNotDivided
<1>3. v \in Nat
  BY PowersAreNumbers
<1>4. OneModulo(v, p) /\ OneModulo(v, q)
  BY <1>2, FermatForAll
<1>5. PowersOf(v)[n] = PowersOf(b)[lambda]
  <2>1. factor \in Int /\ n \in Nat
    OBVIOUS
  <2>2. PowersOf(v)[n] = PowersOf(factor)[lambda * n]
    BY <2>1, PowerOfPower
  <2>3. PowersOf(b)[lambda] = PowersOf(factor)[n * lambda]
    BY <2>1, PowerOfPower
  <2>4. n * lambda = lambda * n
    OBVIOUS
  <2> QED
    BY <2>2, <2>3, <2>4
<1> HIDE DEF v, b
<1>6. OneModulo(v, p * q)
  BY <1>3, <1>4, OneModuloBoth
<1>7. PICK j \in Int : v = 1 + n * j
  BY <1>6 DEF OneModulo, Congruent
<1> DEFINE w == PowersOf(1 + n * j)[n]
<1>8. Congruent(w, 1 + n * (j * n), s)
  <2>1. n \in Int /\ n \in Nat
    OBVIOUS
  <2> QED
    BY <2>1, PowersOfOneMore, Zenon
<1>9. PICK l \in Int : w = (1 + n * (j * n)) + s * l
  BY <1>8 DEF Congruent
<1> HIDE DEF w
<1>10. (1 + n * (j * n)) + (n * n) * l = 1 + (n * n) * (j + l)
  OBVIOUS
<1>11. w = 1 + s * (j + l) /\ j + l \in Int
  BY <1>9, <1>10
<1>12. OneModulo(w, s)
  BY <1>11 DEF OneModulo, Congruent
<1>13. w = PowersOf(b)[lambda]
  BY <1>5, <1>7 DEF w
<1> QED
  BY <1>12, <1>13 DEF b

(* With a key pair made of two primes decryption gives back what was       *)
(* encrypted with any random factor that is prime to n, as encrypt of      *)
(* paillier-bigint draws it, and not only with a power of two.  What the   *)
(* trial of generateDeterministicKeyPair (voting.service.ts) shows for one *)
(* plaintext and one factor so holds for all of them.                      *)
THEOREM AnyFactorDecrypts ==
  ASSUME NEW p \in Nat, IsPrime(p), NEW q \in Nat, IsPrime(q), KeyPair(p, q).ok,
         NEW factor \in Nat \ {0}, Gcd(factor, KeyPair(p, q).n) = 1, NEW m \in Nat
  PROVE  LET pair == KeyPair(p, q)
         IN  Decrypt(pair.n, pair.lambda, pair.mu, Encrypt(pair.n, m, factor)) = m % pair.n
<1> DEFINE pair == KeyPair(p, q)
           n == pair.n
           lambda == pair.lambda
           mu == pair.mu
           b == PowersOf(factor)[n]
           c == Encrypt(n, m, factor)
<1>1. p \in Nat \ {0, 1} /\ q \in Nat \ {0, 1}
  BY DEF IsPrime
<1>2. p # q
  <2> SUFFICES ASSUME p = q PROVE FALSE
    OBVIOUS
  <2>1. KeyPair(p, q) = Failure("identical primes")
    BY DEF KeyPair
  <2>2. ~Failure("identical primes").ok
    BY DEF Failure
  <2> QED
    BY <2>1, <2>2
<1>3. MadeOf(pair, p, q)
  BY KeyPairMade
<1>4. Gcd(factor, n) = 1
  OBVIOUS
<1> HIDE DEF pair
<1>5. /\ n = p * q /\ n \in Nat \ {0, 1}
      /\ lambda \in Nat /\ Divides(p - 1, lambda) /\ Divides(q - 1, lambda)
      /\ mu \in Nat /\ OneModulo(lambda * mu, n)
  BY <1>1, <1>3, MuInverts
<1> HIDE DEF n, lambda, mu
<1>6. OneModulo(PowersOf(b)[lambda], n * n)
  BY <1>2, <1>4, <1>5, AnyFactorVanishes
<1>7. b \in Nat
  BY <1>5, PowersAreNumbers
<1>8. c \in Nat /\ m % n \in 0 .. n - 1 /\ Congruent(c, (1 + n * (m % n)) * b, n * n)
  BY <1>5, EncryptComputes
<1> HIDE DEF b, c
<1>9. Decrypt(n, lambda, mu, c) = m % n
  BY <1>5, <1>6, <1>7, <1>8, FactorVanishes
<1> QED
  BY <1>9 DEF c, n, lambda, mu, pair

(***************************************************************************)
(* The invariant of the keys.  Instance ids are numbered in the order in   *)
(* which they were made, so that no key object and no private key has one  *)
(* that is still to be made.                                               *)
(***************************************************************************)
IsSequence(s) == s \in Seq({s[i] : i \in DOMAIN s})

(* A sequence of any elements is one of its own.                           *)
LEMMA SequenceOfElements ==
  ASSUME NEW X, NEW t \in Seq(X)
  PROVE  IsSequence(t)
<1> DEFINE T == {t[i] : i \in DOMAIN t}
<1>1. \A i \in DOMAIN t : t[i] \in T
  OBVIOUS
<1> HIDE DEF T
<1>2. t \in Seq(T)
  BY <1>1
<1> QED
  BY <1>2 DEF IsSequence, T

(* What Append does to a sequence of its own elements.                     *)
LEMMA SequenceGrows ==
  ASSUME NEW s, IsSequence(s), NEW x
  PROVE  /\ IsSequence(Append(s, x))
         /\ DOMAIN Append(s, x) = DOMAIN s \union {Len(s) + 1}
         /\ Len(s) + 1 \notin DOMAIN s
         /\ Append(s, x)[Len(s) + 1] = x
         /\ \A i \in DOMAIN s : Append(s, x)[i] = s[i]
<1> DEFINE S == {s[i] : i \in DOMAIN s}
           t == Append(s, x)
<1>1. s \in Seq(S \union {x})
  <2>1. s \in Seq(S)
    BY DEF IsSequence
  <2> HIDE DEF S
  <2> QED
    BY <2>1
<1> HIDE DEF S
<1>2. /\ t \in Seq(S \union {x}) /\ DOMAIN t = DOMAIN s \union {Len(s) + 1}
      /\ Len(s) + 1 \notin DOMAIN s
      /\ t[Len(s) + 1] = x /\ \A i \in DOMAIN s : t[i] = s[i]
  BY <1>1
<1> HIDE DEF t
<1>3. IsSequence(t)
  BY <1>2, SequenceOfElements
<1> QED
  BY <1>2, <1>3 DEF t

(* And what a change of one element does.                                  *)
LEMMA SequenceChanges ==
  ASSUME NEW s, IsSequence(s), NEW k \in DOMAIN s, NEW x
  PROVE  LET t == [s EXCEPT ![k] = x]
         IN  /\ IsSequence(t) /\ DOMAIN t = DOMAIN s
             /\ t[k] = x /\ \A i \in DOMAIN s : i # k => t[i] = s[i]
<1> DEFINE S == {s[i] : i \in DOMAIN s}
           t == [s EXCEPT ![k] = x]
<1>1. s \in Seq(S \union {x})
  <2>1. s \in Seq(S)
    BY DEF IsSequence
  <2> HIDE DEF S
  <2> QED
    BY <2>1
<1> HIDE DEF S
<1>2. t \in Seq(S \union {x}) /\ DOMAIN t = DOMAIN s
  BY <1>1
<1>3. t[k] = x /\ \A i \in DOMAIN s : i # k => t[i] = s[i]
  BY <1>1
<1> HIDE DEF t
<1>4. IsSequence(t)
  BY <1>2, SequenceOfElements
<1> QED
  BY <1>2, <1>3, <1>4 DEF t

KeyOf(n, keyId, instanceId) == [n |-> n, keyId |-> keyId, instanceId |-> instanceId]

(* A public key object, with one of the instance ids made so far.          *)
IsPublicKey(key, upto) ==
  /\ key = KeyOf(key.n, key.keyId, key.instanceId)
  /\ key.n \in Nat /\ key.instanceId \in 1 .. upto

(* A private key object, for one of these public key objects.              *)
IsPrivateKey(key, objects, upto) ==
  /\ key.lambda \in Nat /\ key.mu \in Nat
  /\ key.public \in objects /\ key.originalInstanceId \in 1 .. upto

KeysInv ==
  /\ instances \in Nat
  /\ IsSequence(publics) /\ IsSequence(privates)
  /\ \A i \in DOMAIN publics : IsPublicKey(publics[i], instances)
  /\ \A j \in DOMAIN privates : IsPrivateKey(privates[j], DOMAIN publics, instances)

(* No damaged buffer is read, whichever key it was.                        *)
LEMMA CheckedIsNoticed ==
  ASSUME NEW buffer, IsChecked(buffer), NEW b \in Damaged(buffer),
         \/ BufferToIsolatedPublicKey(b).ok
         \/ BufferToVotingPublicKey(b).ok
         \/ BufferToVotingPrivateKey(b).ok
  PROVE  b = buffer
<1>1. PICK T : \E p \in Seq(T) : buffer = WithChecksum(p)
  BY DEF IsChecked
<1>2. PICK p \in Seq(T) : buffer = WithChecksum(p)
  BY <1>1
<1>3. b \in Damaged(WithChecksum(p))
  BY <1>2
<1>4. b = WithChecksum(p)
  BY <1>3, DamageIsNoticed
<1> QED
  BY <1>2, <1>4

(* What is stored of keys that are typed comes back, and only that.        *)
LEMMA TypedKeysAreWhole == KeysInv => StoredKeysAreWhole
<1> SUFFICES ASSUME KeysInv PROVE StoredKeysAreWhole
  OBVIOUS
<1>1. ASSUME NEW i \in DOMAIN publics
      PROVE  /\ BufferToIsolatedPublicKey(IsolatedPublicKeyToBuffer(publics[i])).key = publics[i]
             /\ BufferToVotingPublicKey(VotingPublicKeyToBuffer(publics[i].n)).n = publics[i].n
             /\ IsChecked(IsolatedPublicKeyToBuffer(publics[i]))
             /\ IsChecked(VotingPublicKeyToBuffer(publics[i].n))
  <2> DEFINE key == publics[i]
  <2>1. IsPublicKey(key, instances)
    BY DEF KeysInv
  <2> HIDE DEF key
  <2>2. key.n \in Nat /\ key = [n |-> key.n, keyId |-> key.keyId, instanceId |-> key.instanceId]
    BY <2>1 DEF IsPublicKey, KeyOf
  <2>3. /\ BufferToIsolatedPublicKey(IsolatedPublicKeyToBuffer(key)) = [ok |-> TRUE, key |-> key]
        /\ IsChecked(IsolatedPublicKeyToBuffer(key))
    BY <2>2, IsolatedComesBack
  <2>4. /\ BufferToVotingPublicKey(VotingPublicKeyToBuffer(key.n)) = [ok |-> TRUE, n |-> key.n]
        /\ IsChecked(VotingPublicKeyToBuffer(key.n))
    BY <2>2, PublicComesBack
  <2>5. [ok |-> TRUE, key |-> key].key = key /\ [ok |-> TRUE, n |-> key.n].n = key.n
    OBVIOUS
  <2> QED
    BY <2>3, <2>4, <2>5, Zenon DEF key
<1>2. ASSUME NEW j \in DOMAIN privates
      PROVE  /\ BufferToVotingPrivateKey(VotingPrivateKeyToBuffer(privates[j].lambda, privates[j].mu)) =
                  [ok |-> TRUE, lambda |-> privates[j].lambda, mu |-> privates[j].mu]
             /\ IsChecked(VotingPrivateKeyToBuffer(privates[j].lambda, privates[j].mu))
  <2>1. privates[j].lambda \in Nat /\ privates[j].mu \in Nat
    BY DEF KeysInv, IsPrivateKey
  <2> QED
    BY <2>1, PrivateComesBack
<1>3. ASSUME NEW i \in DOMAIN publics
      PROVE  /\ \A b \in Damaged(IsolatedPublicKeyToBuffer(publics[i])) :
                  BufferToIsolatedPublicKey(b).ok => b = IsolatedPublicKeyToBuffer(publics[i])
             /\ \A b \in Damaged(VotingPublicKeyToBuffer(publics[i].n)) :
                  BufferToVotingPublicKey(b).ok => b = VotingPublicKeyToBuffer(publics[i].n)
  BY <1>1, CheckedIsNoticed
<1>4. ASSUME NEW j \in DOMAIN privates
      PROVE  \A b \in Damaged(VotingPrivateKeyToBuffer(privates[j].lambda, privates[j].mu)) :
               BufferToVotingPrivateKey(b).ok =>
                 b = VotingPrivateKeyToBuffer(privates[j].lambda, privates[j].mu)
  BY <1>2, CheckedIsNoticed
<1> QED
  BY <1>1, <1>2, <1>3, <1>4, Zenon DEF StoredKeysAreWhole

(* What one step does to the instance ids.                                 *)
Revoked(j) == publics[privates[j].public].instanceId # privates[j].originalInstanceId

StaysRevoked == \A j \in DOMAIN privates : Revoked(j) => Revoked(j)'

(* A new public key object, with an instance id that there is.             *)
LEMMA PublicAdded ==
  ASSUME KeysInv, NEW key, publics' = Append(publics, key), UNCHANGED privates,
         instances' \in Nat, instances <= instances', IsPublicKey(key, instances')
  PROVE  KeysInv' /\ StaysRevoked
<1>1. /\ IsSequence(publics') /\ DOMAIN publics' = DOMAIN publics \union {Len(publics) + 1}
      /\ publics'[Len(publics) + 1] = key /\ \A i \in DOMAIN publics : publics'[i] = publics[i]
  BY SequenceGrows DEF KeysInv
<1>2. ASSUME NEW i \in DOMAIN publics' PROVE IsPublicKey(publics'[i], instances')
  BY <1>1 DEF KeysInv, IsPublicKey
<1>3. KeysInv'
  <2>1. IsSequence(publics') /\ IsSequence(privates')
    BY <1>1 DEF KeysInv
  <2>2. \A j \in DOMAIN privates' : IsPrivateKey(privates'[j], DOMAIN publics', instances')
    BY <1>1 DEF KeysInv, IsPrivateKey
  <2> QED
    BY <1>2, <2>1, <2>2 DEF KeysInv, IsSequence
<1> QED
  BY <1>1, <1>3 DEF KeysInv, IsPrivateKey, StaysRevoked, Revoked

(* A new private key for the instance its public key object has now.       *)
LEMMA PrivateAdded ==
  ASSUME KeysInv, NEW key, privates' = Append(privates, key), UNCHANGED <<publics, instances>>,
         key.lambda \in Nat, key.mu \in Nat, key.public \in DOMAIN publics,
         key.originalInstanceId = publics[key.public].instanceId
  PROVE  KeysInv' /\ StaysRevoked
<1>1. /\ IsSequence(privates') /\ DOMAIN privates' = DOMAIN privates \union {Len(privates) + 1}
      /\ privates'[Len(privates) + 1] = key /\ \A i \in DOMAIN privates : privates'[i] = privates[i]
  BY SequenceGrows DEF KeysInv
<1>2. ASSUME NEW j \in DOMAIN privates'
      PROVE  IsPrivateKey(privates'[j], DOMAIN publics, instances)
  BY <1>1 DEF KeysInv, IsPublicKey, IsPrivateKey
<1>3. KeysInv'
  <2>1. IsSequence(publics') /\ IsSequence(privates')
    BY <1>1 DEF KeysInv
  <2> QED
    BY <1>2, <2>1 DEF KeysInv, IsSequence
<1> QED
  BY <1>1, <1>3 DEF KeysInv, StaysRevoked, Revoked

(* An object takes an instance id that no private key can have.            *)
LEMMA InstanceRenewed ==
  ASSUME KeysInv, NEW i \in DOMAIN publics, UpdateInstanceId(i)
  PROVE  KeysInv' /\ StaysRevoked
<1> DEFINE key == [publics[i] EXCEPT !.instanceId = instances + 1]
<1>1. publics' = [publics EXCEPT ![i] = key] /\ instances' = instances + 1 /\ privates' = privates
  BY DEF UpdateInstanceId
<1>2. IsPublicKey(key, instances + 1) /\ key.instanceId = instances + 1
  <2>1. instances \in Nat /\ IsPublicKey(publics[i], instances)
    BY DEF KeysInv
  <2>2. key = KeyOf(publics[i].n, publics[i].keyId, instances + 1)
    BY <2>1 DEF IsPublicKey, KeyOf
  <2> HIDE DEF key
  <2> QED
    BY <2>1, <2>2 DEF IsPublicKey, KeyOf
<1> HIDE DEF key
<1>3. /\ IsSequence(publics') /\ DOMAIN publics' = DOMAIN publics
      /\ publics'[i] = key /\ \A k \in DOMAIN publics : k # i => publics'[k] = publics[k]
  BY <1>1, SequenceChanges DEF KeysInv
<1>4. instances \in Nat /\ instances' \in Nat /\ instances' = instances + 1
  BY <1>1 DEF KeysInv
<1>5. ASSUME NEW k \in DOMAIN publics' PROVE IsPublicKey(publics'[k], instances')
  BY <1>2, <1>3, <1>4 DEF KeysInv, IsPublicKey
<1>6. ASSUME NEW j \in DOMAIN privates
      PROVE  /\ privates'[j] = privates[j] /\ privates[j].public \in DOMAIN publics'
             /\ privates[j].originalInstanceId \in 1 .. instances'
             /\ privates[j].originalInstanceId # instances + 1
  BY <1>1, <1>3, <1>4 DEF KeysInv, IsPrivateKey
<1>7. KeysInv'
  <2>1. IsSequence(publics') /\ IsSequence(privates')
    BY <1>1, <1>3 DEF KeysInv
  <2>2. \A j \in DOMAIN privates' : IsPrivateKey(privates'[j], DOMAIN publics', instances')
    BY <1>1, <1>6 DEF KeysInv, IsPrivateKey
  <2> QED
    BY <1>4, <1>5, <2>1, <2>2 DEF KeysInv, IsSequence
<1>8. StaysRevoked
  BY <1>1, <1>2, <1>3, <1>6 DEF StaysRevoked, Revoked
<1> QED
  BY <1>7, <1>8

(* No step leaves the invariant or brings an instance id back.             *)
LEMMA KeysStep == KeysInv /\ [KeyNext]_keyVars => KeysInv' /\ StaysRevoked
<1> SUFFICES ASSUME KeysInv, [KeyNext]_keyVars PROVE KeysInv' /\ StaysRevoked
  OBVIOUS
<1>1. ASSUME NEW p \in Identities, NEW keyId, Create(p, keyId) PROVE KeysInv' /\ StaysRevoked
  <2> DEFINE key == [n |-> Pair(p).n, keyId |-> keyId, instanceId |-> instances + 1]
  <2>1. publics' = Append(publics, key) /\ instances' = instances + 1 /\ privates' = privates
    BY <1>1 DEF Create
  <2>2. instances \in Nat /\ Pair(p).n \in Nat
    BY <1>1, PairIs DEF KeysInv, Create, WorkingKey
  <2>3. IsPublicKey(key, instances + 1)
    BY <2>2 DEF IsPublicKey, KeyOf
  <2> HIDE DEF key
  <2> QED
    BY <2>1, <2>2, <2>3, PublicAdded
<1>2. ASSUME NEW p \in Identities, NEW i \in DOMAIN publics, CreatePrivate(p, i)
      PROVE  KeysInv' /\ StaysRevoked
  <2> DEFINE key == [lambda |-> Pair(p).lambda, mu |-> Pair(p).mu, n |-> publics[i].n,
                     public |-> i, originalKeyId |-> publics[i].keyId,
                     originalInstanceId |-> publics[i].instanceId, pairOf |-> Pair(p).n]
  <2>1. privates' = Append(privates, key) /\ UNCHANGED <<publics, instances>>
    BY <1>2 DEF CreatePrivate
  <2>2. Pair(p).lambda \in Nat /\ Pair(p).mu \in Nat
    BY <1>2, PairIs DEF CreatePrivate, WorkingKey
  <2>3. /\ key.public = i /\ key.originalInstanceId = publics[i].instanceId
        /\ key.lambda \in Nat /\ key.mu \in Nat
    BY <2>2
  <2> HIDE DEF key
  <2> QED
    BY <2>1, <2>3, PrivateAdded
<1>3. ASSUME NEW i \in DOMAIN publics, StorePublic(i) PROVE KeysInv' /\ StaysRevoked
  <2>1. publics' = Append(publics, publics[i]) /\ UNCHANGED <<privates, instances>>
    BY <1>3, TypedKeysAreWhole DEF StorePublic, StoredKeysAreWhole
  <2> QED
    BY <2>1, PublicAdded DEF KeysInv
<1>4. ASSUME NEW i \in DOMAIN publics, NEW j \in DOMAIN privates, StorePrivate(j, i)
      PROVE  KeysInv' /\ StaysRevoked
  <2> DEFINE read == BufferToVotingPrivateKey(
                       VotingPrivateKeyToBuffer(privates[j].lambda, privates[j].mu))
             key == [lambda |-> read.lambda, mu |-> read.mu, n |-> publics[i].n, public |-> i,
                     originalKeyId |-> publics[i].keyId,
                     originalInstanceId |-> publics[i].instanceId,
                     pairOf |-> privates[j].pairOf]
  <2>1. privates' = Append(privates, key) /\ UNCHANGED <<publics, instances>>
    BY <1>4 DEF StorePrivate
  <2>2. read.lambda \in Nat /\ read.mu \in Nat
    <3>1. privates[j].lambda \in Nat /\ privates[j].mu \in Nat
      BY DEF KeysInv, IsPrivateKey
    <3>2. read = [ok |-> TRUE, lambda |-> privates[j].lambda, mu |-> privates[j].mu]
      BY <3>1, PrivateComesBack
    <3> HIDE DEF read
    <3> QED
      BY <3>1, <3>2
  <2> HIDE DEF read
  <2>3. /\ key.public = i /\ key.originalInstanceId = publics[i].instanceId
        /\ key.lambda \in Nat /\ key.mu \in Nat
    BY <2>2
  <2> HIDE DEF key
  <2> QED
    BY <2>1, <2>3, PrivateAdded
<1>5. ASSUME UNCHANGED <<publics, privates, instances>> PROVE KeysInv' /\ StaysRevoked
  BY <1>5 DEF KeysInv, IsSequence, StaysRevoked, Revoked
<1>6. ASSUME NEW i \in DOMAIN publics,
             \/ \E m \in Messages : EncryptIsolated(i, m)
             \/ \E a, b \in ciphertexts : AdditionIsolated(i, a, b)
             \/ \E t \in ciphertexts : MultiplyIsolated(i, t, 2)
      PROVE  KeysInv' /\ StaysRevoked
  BY <1>5, <1>6 DEF EncryptIsolated, AdditionIsolated, MultiplyIsolated, Keep
<1>7. ASSUME NEW t \in ciphertexts, Change(t) PROVE KeysInv' /\ StaysRevoked
  BY <1>5, <1>7 DEF Change, Keep
<1>8. CASE UNCHANGED keyVars
  BY <1>5, <1>8 DEF keyVars
<1> QED
  BY <1>1, <1>2, <1>3, <1>4, <1>6, <1>7, <1>8, InstanceRenewed DEF KeyNext

(* The invariant holds before there is a key.                              *)
LEMMA KeysInitially == KeyInit => KeysInv
<1> SUFFICES ASSUME KeyInit PROVE KeysInv
  OBVIOUS
<1>1. \A s : s = <<>> => IsSequence(s) /\ DOMAIN s = {}
  BY DEF IsSequence
<1> QED
  BY <1>1 DEF KeyInit, KeysInv

(***************************************************************************)
(* The invariant of the ciphertexts.  A key is made with the key id of its *)
(* modulus or with another that is of no modulus; a ciphertext whose tag   *)
(* still fits is an encryption under the modulus whose key id is in it.    *)
(***************************************************************************)
KeyIdsFor(n) == {KeyIdOf(n), KeyIdOf(0)}

PublicEncrypts(key) == key.n \in Nat \ {0, 1} /\ key.keyId \in KeyIdsFor(key.n)

PrivateDecrypts(key) ==
  /\ WorkingKey(key.pairOf, key.lambda, key.mu)
  /\ key.n \in Nat /\ key.originalKeyId \in KeyIdsFor(key.n)

CipherOf(c, taggedFor, tag, plain) ==
  [c |-> c, taggedFor |-> taggedFor, tag |-> tag, plain |-> plain]

EncryptedUnder(n, t) ==
  t.tag[1] = KeyIdOf(n) /\ Encrypted(n, t.c, t.plain) /\ t.plain \in 0 .. n - 1

IsCiphertext(t) ==
  /\ t = CipherOf(t.c, t.taggedFor, t.tag, t.plain)
  /\ t.c \in Nat /\ t.taggedFor \in Nat /\ t.taggedFor <= t.c
  /\ t.taggedFor = t.c => \E n \in Nat \ {0, 1} : EncryptedUnder(n, t)

CiphersInv ==
  /\ \A i \in DOMAIN publics : PublicEncrypts(publics[i])
  /\ \A j \in DOMAIN privates : PrivateDecrypts(privates[j])
  /\ \A t \in ciphertexts : IsCiphertext(t)

(* A key id is of one modulus.                                             *)
LEMMA KeyIdsDiffer ==
  ASSUME NEW m \in Nat \ {0}, NEW n \in Nat, KeyIdOf(m) \in KeyIdsFor(n)
  PROVE  m = n
BY DEF KeyIdOf, KeyIdsFor

(* What is tagged under the key id of a key, and not changed, is encrypted *)
(* under its modulus.                                                      *)
LEMMA TaggedIsEncrypted ==
  ASSUME NEW t, IsCiphertext(t), t.taggedFor = t.c, NEW n \in Nat, t.tag[1] \in KeyIdsFor(n)
  PROVE  EncryptedUnder(n, t)
<1>1. PICK m \in Nat \ {0, 1} : EncryptedUnder(m, t)
  BY DEF IsCiphertext
<1>2. KeyIdOf(m) \in KeyIdsFor(n)
  BY <1>1 DEF EncryptedUnder
<1>3. m = n
  BY <1>2, KeyIdsDiffer
<1> QED
  BY <1>1, <1>3

(* So the keys that hold the invariant decrypt what was encrypted.         *)
LEMMA WorkingKeysDecrypt == CiphersInv => DecryptsWhatWasEncrypted
<1> SUFFICES ASSUME CiphersInv, NEW j \in DOMAIN privates, NEW t \in ciphertexts,
                    DecryptIsolated(privates[j], t).ok
             PROVE  /\ t.plain # Unknown
                    /\ privates[j].pairOf = privates[j].n =>
                         DecryptIsolated(privates[j], t).plain = t.plain
  BY Zenon DEF DecryptsWhatWasEncrypted
<1> DEFINE k == privates[j]
           x == Decrypt(k.n, k.lambda, k.mu, t.c)
           d == DecryptIsolated(k, t)
<1>1. \A e : ~Failure(e).ok
  BY DEF Failure
<1>2. /\ t.taggedFor = t.c /\ t.tag = <<k.originalKeyId, k.originalInstanceId>>
      /\ d = [ok |-> TRUE, plain |-> x]
  <2>1. \/ d = Failure("instance id mismatch") \/ d = Failure("ciphertext HMAC")
        \/ /\ t.taggedFor = t.c /\ t.tag = <<k.originalKeyId, k.originalInstanceId>>
           /\ d = [ok |-> TRUE, plain |-> x]
    <3> HIDE DEF k, x
    <3> QED
      BY DEF DecryptIsolated, x
  <2>2. d.ok
    OBVIOUS
  <2> HIDE DEF d
  <2> QED
    BY <1>1, <2>1, <2>2
<1>3. PrivateDecrypts(k) /\ IsCiphertext(t)
  BY DEF CiphersInv
<1> HIDE DEF k, d
<1>4. WorkingKey(k.pairOf, k.lambda, k.mu) /\ k.n \in Nat
  BY <1>3 DEF PrivateDecrypts
<1>5. EncryptedUnder(k.n, t)
  BY <1>2, <1>3, <1>4, TaggedIsEncrypted DEF PrivateDecrypts
<1>6. t.plain # Unknown
  <2>1. t.plain \in 0 .. k.n - 1
    BY <1>5 DEF EncryptedUnder
  <2> QED
    BY <2>1, <1>4 DEF Unknown
<1>7. ASSUME k.pairOf = k.n PROVE d.plain = t.plain
  <2>1. WorkingKey(k.n, k.lambda, k.mu)
    BY <1>4, <1>7
  <2>2. x = t.plain
    BY <1>4, <1>5, <2>1, EncryptionDecrypts DEF EncryptedUnder
  <2> HIDE DEF x
  <2> QED
    BY <1>2, <2>2
<1> QED
  BY <1>6, <1>7 DEF d, k

(* A new public key object.                                                *)
LEMMA PublicTaken ==
  ASSUME KeysInv, CiphersInv, NEW key, publics' = Append(publics, key), PublicEncrypts(key),
         UNCHANGED <<privates, ciphertexts>>
  PROVE  CiphersInv'
<1>1. /\ DOMAIN publics' = DOMAIN publics \union {Len(publics) + 1}
      /\ publics'[Len(publics) + 1] = key /\ \A i \in DOMAIN publics : publics'[i] = publics[i]
  BY SequenceGrows DEF KeysInv
<1>2. ASSUME NEW i \in DOMAIN publics' PROVE PublicEncrypts(publics'[i])
  BY <1>1 DEF CiphersInv
<1> QED
  BY <1>2 DEF CiphersInv

(* A new private key object.                                               *)
LEMMA PrivateTaken ==
  ASSUME KeysInv, CiphersInv, NEW key, privates' = Append(privates, key), PrivateDecrypts(key),
         UNCHANGED <<publics, ciphertexts>>
  PROVE  CiphersInv'
<1>1. /\ DOMAIN privates' = DOMAIN privates \union {Len(privates) + 1}
      /\ privates'[Len(privates) + 1] = key /\ \A j \in DOMAIN privates : privates'[j] = privates[j]
  BY SequenceGrows DEF KeysInv
<1>2. ASSUME NEW j \in DOMAIN privates' PROVE PrivateDecrypts(privates'[j])
  BY <1>1 DEF CiphersInv
<1> QED
  BY <1>2 DEF CiphersInv

(* A new ciphertext.                                                       *)
LEMMA CiphertextKept ==
  ASSUME CiphersInv, NEW t, Keep(t), IsCiphertext(t)
  PROVE  CiphersInv'
BY DEF CiphersInv, Keep

(* What is tagged with a key whose key id was verified is a ciphertext.    *)
LEMMA TaggedIsCiphertext ==
  ASSUME NEW key, PublicEncrypts(key), KeyIdVerified(key), NEW c, NEW plain \in 0 .. key.n - 1,
         Encrypted(key.n, c, plain)
  PROVE  IsCiphertext(TagCiphertext(key, c, plain))
<1> DEFINE t == CipherOf(c, c, Tag(key), plain)
<1>1. TagCiphertext(key, c, plain) = t
  BY DEF TagCiphertext, CipherOf
<1>2. t.c = c /\ t.taggedFor = c /\ t.tag = Tag(key) /\ t.plain = plain
  BY DEF CipherOf
<1>3. t = CipherOf(t.c, t.taggedFor, t.tag, t.plain)
  BY <1>2
<1> HIDE DEF t
<1>4. c \in Nat
  BY DEF Encrypted
<1>5. Tag(key)[1] = KeyIdOf(key.n)
  BY DEF Tag, KeyIdVerified
<1>6. EncryptedUnder(key.n, t)
  BY <1>2, <1>5 DEF EncryptedUnder
<1>7. \E n \in Nat \ {0, 1} : EncryptedUnder(n, t)
  BY <1>6 DEF PublicEncrypts
<1>8. IsCiphertext(t)
  BY <1>2, <1>3, <1>4, <1>7 DEF IsCiphertext
<1> QED
  BY <1>1, <1>8

(* What a key takes back as tagged by it is encrypted under its modulus.   *)
LEMMA ExtractedIsEncrypted ==
  ASSUME NEW key, PublicEncrypts(key), NEW t, IsCiphertext(t), ExtractInstanceId(key, t)
  PROVE  Encrypted(key.n, t.c, t.plain) /\ t.plain \in Nat
<1>1. key.n \in Nat /\ t.tag[1] \in KeyIdsFor(key.n) /\ t.taggedFor = t.c
  BY DEF PublicEncrypts, ExtractInstanceId, Tag
<1>2. EncryptedUnder(key.n, t)
  BY <1>1, TaggedIsEncrypted
<1> QED
  BY <1>1, <1>2 DEF EncryptedUnder

Changed(t, d) == [t EXCEPT !.c = d, !.plain = Unknown]

(* A ciphertext that is changed is one with an unknown plaintext.          *)
LEMMA ChangedIs ==
  ASSUME NEW c, NEW taggedFor, NEW tag, NEW plain, NEW d
  PROVE  Changed(CipherOf(c, taggedFor, tag, plain), d) = CipherOf(d, taggedFor, tag, Unknown)
<1> DEFINE t == CipherOf(c, taggedFor, tag, plain)
           u == CipherOf(d, taggedFor, tag, plain)
<1>1. [t EXCEPT !.c = d, !.plain = Unknown] = [[t EXCEPT !.c = d] EXCEPT !.plain = Unknown]
  OBVIOUS
<1>2. [t EXCEPT !.c = d] = u
  BY DEF CipherOf
<1>3. [u EXCEPT !.plain = Unknown] = CipherOf(d, taggedFor, tag, Unknown)
  BY DEF CipherOf
<1> HIDE DEF t, u
<1>4. Changed(t, d) = CipherOf(d, taggedFor, tag, Unknown)
  BY <1>1, <1>2, <1>3 DEF Changed
<1> QED
  BY <1>4 DEF t

(* No step leaves the invariant of the ciphertexts.                        *)
LEMMA CiphersStep == KeysInv /\ CiphersInv /\ [KeyNext]_keyVars => CiphersInv'
<1> SUFFICES ASSUME KeysInv, CiphersInv, [KeyNext]_keyVars PROVE CiphersInv'
  OBVIOUS
<1>1. ASSUME NEW p \in Identities, NEW keyId \in KeyIdsFor(Pair(p).n), Create(p, keyId)
      PROVE  CiphersInv'
  <2> DEFINE key == [n |-> Pair(p).n, keyId |-> keyId, instanceId |-> instances + 1]
  <2>1. publics' = Append(publics, key) /\ UNCHANGED <<privates, ciphertexts>>
    BY <1>1 DEF Create
  <2>2. Pair(p).n \in Nat \ {0, 1}
    BY <1>1, PairIs DEF Create, WorkingKey
  <2>3. key.n = Pair(p).n /\ key.keyId = keyId
    OBVIOUS
  <2> HIDE DEF key
  <2>4. PublicEncrypts(key)
    BY <1>1, <2>2, <2>3 DEF PublicEncrypts
  <2> QED
    BY <2>1, <2>4, PublicTaken
<1>2. ASSUME NEW p \in Identities, NEW i \in DOMAIN publics, CreatePrivate(p, i)
      PROVE  CiphersInv'
  <2> DEFINE key == [lambda |-> Pair(p).lambda, mu |-> Pair(p).mu, n |-> publics[i].n,
                     public |-> i, originalKeyId |-> publics[i].keyId,
                     originalInstanceId |-> publics[i].instanceId, pairOf |-> Pair(p).n]
  <2>1. privates' = Append(privates, key) /\ UNCHANGED <<publics, ciphertexts>>
    BY <1>2 DEF CreatePrivate
  <2>2. WorkingKey(Pair(p).n, Pair(p).lambda, Pair(p).mu)
    BY <1>2, PairIs DEF CreatePrivate
  <2>3. /\ key.n = publics[i].n /\ key.lambda = Pair(p).lambda /\ key.mu = Pair(p).mu
        /\ key.originalKeyId = publics[i].keyId /\ key.pairOf = Pair(p).n
    OBVIOUS
  <2> HIDE DEF key
  <2>4. PrivateDecrypts(key)
    BY <2>2, <2>3 DEF CiphersInv, PublicEncrypts, PrivateDecrypts
  <2> QED
    BY <2>1, <2>4, PrivateTaken
<1>3. ASSUME NEW i \in DOMAIN publics, UpdateInstanceId(i) PROVE CiphersInv'
  <2> DEFINE key == [publics[i] EXCEPT !.instanceId = instances + 1]
  <2>1. publics' = [publics EXCEPT ![i] = key] /\ UNCHANGED <<privates, ciphertexts>>
    BY <1>3 DEF UpdateInstanceId
  <2>2. key.n = publics[i].n /\ key.keyId = publics[i].keyId
    OBVIOUS
  <2> HIDE DEF key
  <2>3. PublicEncrypts(publics[i]) /\ IsSequence(publics)
    BY DEF CiphersInv, KeysInv
  <2>4. /\ DOMAIN publics' = DOMAIN publics
        /\ publics'[i] = key /\ \A k \in DOMAIN publics : k # i => publics'[k] = publics[k]
    BY <2>1, <2>3, SequenceChanges
  <2>5. PublicEncrypts(key)
    BY <2>2, <2>3 DEF PublicEncrypts
  <2>6. \A k \in DOMAIN publics' : PublicEncrypts(publics'[k])
    BY <2>4, <2>5 DEF CiphersInv
  <2> QED
    BY <2>1, <2>6 DEF CiphersInv
<1>4. ASSUME NEW i \in DOMAIN publics, StorePublic(i) PROVE CiphersInv'
  <2>1. publics' = Append(publics, publics[i]) /\ UNCHANGED <<privates, ciphertexts>>
    BY <1>4, TypedKeysAreWhole DEF StorePublic, StoredKeysAreWhole
  <2> QED
    BY <2>1, PublicTaken DEF CiphersInv
<1>5. ASSUME NEW i \in DOMAIN publics, NEW j \in DOMAIN privates, StorePrivate(j, i)
      PROVE  CiphersInv'
  <2> DEFINE read == BufferToVotingPrivateKey(
                       VotingPrivateKeyToBuffer(privates[j].lambda, privates[j].mu))
             key == [lambda |-> read.lambda, mu |-> read.mu, n |-> publics[i].n, public |-> i,
                     originalKeyId |-> publics[i].keyId,
                     originalInstanceId |-> publics[i].instanceId,
                     pairOf |-> privates[j].pairOf]
  <2>1. privates' = Append(privates, key) /\ UNCHANGED <<publics, ciphertexts>>
    BY <1>5 DEF StorePrivate
  <2>2. read.lambda = privates[j].lambda /\ read.mu = privates[j].mu
    <3>1. privates[j].lambda \in Nat /\ privates[j].mu \in Nat
      BY DEF KeysInv, IsPrivateKey
    <3>2. read = [ok |-> TRUE, lambda |-> privates[j].lambda, mu |-> privates[j].mu]
      BY <3>1, PrivateComesBack
    <3> HIDE DEF read
    <3> QED
      BY <3>2
  <2> HIDE DEF read
  <2>3. /\ key.n = publics[i].n /\ key.lambda = read.lambda /\ key.mu = read.mu
        /\ key.originalKeyId = publics[i].keyId /\ key.pairOf = privates[j].pairOf
    OBVIOUS
  <2> HIDE DEF key
  <2>4. PrivateDecrypts(key)
    BY <2>1, <2>2, <2>3 DEF CiphersInv, PublicEncrypts, PrivateDecrypts
  <2> QED
    BY <2>1, <2>4, PrivateTaken
<1>6. ASSUME NEW i \in DOMAIN publics, NEW m \in Messages, EncryptIsolated(i, m)
      PROVE  CiphersInv'
  <2> DEFINE key == publics[i]
             c == Encrypt(key.n, m, 2)
             x == m % key.n
  <2>1. PublicEncrypts(key) /\ KeyIdVerified(key) /\ Keep(TagCiphertext(key, c, x))
    BY <1>6 DEF CiphersInv, EncryptIsolated
  <2>2. m \in Nat /\ key.n \in Nat \ {0, 1}
    BY <2>1, MessagesAssumption DEF PublicEncrypts
  <2> HIDE DEF key
  <2>3. Encrypted(key.n, c, x) /\ x \in 0 .. key.n - 1
    BY <2>2, EncryptionMade
  <2> HIDE DEF c, x
  <2>4. IsCiphertext(TagCiphertext(key, c, x))
    BY <2>1, <2>3, TaggedIsCiphertext
  <2> QED
    BY <2>1, <2>4, CiphertextKept
<1>7. ASSUME NEW i \in DOMAIN publics, NEW a \in ciphertexts, NEW b \in ciphertexts,
             AdditionIsolated(i, a, b)
      PROVE  CiphersInv'
  <2> DEFINE key == publics[i]
             c == MulMod(a.c, b.c, key.n * key.n)
             x == (a.plain + b.plain) % key.n
  <2>1. /\ PublicEncrypts(key) /\ KeyIdVerified(key) /\ IsCiphertext(a) /\ IsCiphertext(b)
        /\ ExtractInstanceId(key, a) /\ ExtractInstanceId(key, b)
        /\ Keep(TagCiphertext(key, c, Plus(a.plain, b.plain, key.n)))
    BY <1>7 DEF CiphersInv, AdditionIsolated
  <2> HIDE DEF key
  <2>2. /\ Encrypted(key.n, a.c, a.plain) /\ a.plain \in Nat
        /\ Encrypted(key.n, b.c, b.plain) /\ b.plain \in Nat
    BY <2>1, ExtractedIsEncrypted
  <2>3. key.n \in Nat \ {0, 1}
    BY <2>1 DEF PublicEncrypts
  <2>4. Encrypted(key.n, c, x) /\ x \in 0 .. key.n - 1
    BY <2>2, <2>3, EncryptionsAdded
  <2>5. Plus(a.plain, b.plain, key.n) = x
    BY <2>2 DEF Plus, Unknown
  <2> HIDE DEF c, x
  <2>6. IsCiphertext(TagCiphertext(key, c, x))
    BY <2>1, <2>4, TaggedIsCiphertext
  <2> QED
    BY <2>1, <2>5, <2>6, CiphertextKept
<1>8. ASSUME NEW i \in DOMAIN publics, NEW t \in ciphertexts, MultiplyIsolated(i, t, 2)
      PROVE  CiphersInv'
  <2> DEFINE key == publics[i]
             two == 2
             c == ModPow(t.c, two, key.n * key.n)
             x == (t.plain * two) % key.n
             plain == IF t.plain = Unknown THEN Unknown ELSE x
  <2>1. /\ PublicEncrypts(key) /\ KeyIdVerified(key) /\ IsCiphertext(t)
        /\ ExtractInstanceId(key, t) /\ Keep(TagCiphertext(key, c, plain))
    BY <1>8 DEF CiphersInv, MultiplyIsolated
  <2> HIDE DEF key
  <2>2. Encrypted(key.n, t.c, t.plain) /\ t.plain \in Nat
    BY <2>1, ExtractedIsEncrypted
  <2>3. key.n \in Nat \ {0, 1} /\ two \in Nat
    BY <2>1 DEF PublicEncrypts
  <2> HIDE DEF two
  <2>4. Encrypted(key.n, c, x) /\ x \in 0 .. key.n - 1
    BY <2>2, <2>3, EncryptionMultiplied
  <2> HIDE DEF c, x
  <2>5. plain = x
    BY <2>2 DEF Unknown
  <2> HIDE DEF plain
  <2>6. IsCiphertext(TagCiphertext(key, c, x))
    BY <2>1, <2>4, TaggedIsCiphertext
  <2> QED
    BY <2>1, <2>5, <2>6, CiphertextKept
<1>9. ASSUME NEW t \in ciphertexts, Change(t) PROVE CiphersInv'
  <2> DEFINE u == [t EXCEPT !.c = @ + 1, !.plain = Unknown]
             v == CipherOf(t.c + 1, t.taggedFor, t.tag, Unknown)
  <2>1. IsCiphertext(t) /\ Keep(u)
    BY <1>9 DEF CiphersInv, Change
  <2>2. t = CipherOf(t.c, t.taggedFor, t.tag, t.plain)
    BY <2>1 DEF IsCiphertext
  <2>3. u = v
    <3> DEFINE next == t.c + 1
    <3>1. u = Changed(t, next)
      BY DEF Changed
    <3> HIDE DEF next, u
    <3>2. Changed(CipherOf(t.c, t.taggedFor, t.tag, t.plain), next) =
            CipherOf(next, t.taggedFor, t.tag, Unknown)
      BY ChangedIs
    <3>3. Changed(t, next) = CipherOf(next, t.taggedFor, t.tag, Unknown)
      BY <2>2, <3>2
    <3> QED
      BY <3>1, <3>3 DEF next
  <2>4. /\ v = CipherOf(v.c, v.taggedFor, v.tag, v.plain)
        /\ v.c = t.c + 1 /\ v.taggedFor = t.taggedFor
    BY DEF CipherOf
  <2> HIDE DEF u, v
  <2>5. v.c \in Nat /\ v.taggedFor \in Nat /\ v.taggedFor < v.c
    BY <2>1, <2>4 DEF IsCiphertext
  <2>6. IsCiphertext(v)
    BY <2>4, <2>5 DEF IsCiphertext
  <2> QED
    BY <2>1, <2>3, <2>6, CiphertextKept
<1>10. CASE UNCHANGED keyVars
  BY <1>10 DEF keyVars, CiphersInv
<1>11. \A p \in Identities : KeyIdsFor(Pair(p).n) = {KeyIdOf(Pair(p).n), KeyIdOf(0)}
  BY DEF KeyIdsFor
<1> QED
  BY <1>1, <1>2, <1>3, <1>4, <1>5, <1>6, <1>7, <1>8, <1>9, <1>10, <1>11 DEF KeyNext

(* There is no key and no ciphertext at first.                             *)
LEMMA CiphersInitially == KeyInit => CiphersInv
BY DEF KeyInit, CiphersInv

-----------------------------------------------------------------------------
(* A key that is stored, plain or of an instance, public or private, is    *)
(* read back as it was, and a buffer that was cut or changed in any place  *)
(* is not taken for a key (voting.service.ts, the voting key buffers):     *)
(* for every key pair that the derivation makes, of any size.              *)
THEOREM StoredKeysAlwaysWhole == KeySpec => []StoredKeysAreWhole
<1>1. KeysInv /\ [KeyNext]_keyVars => KeysInv'
  BY KeysStep
<1> QED
  BY <1>1, KeysInitially, TypedKeysAreWhole, PTL DEF KeySpec

(* A private key whose public key has taken another instance id never      *)
(* decrypts again, in whatever order keys are made, stored, read back and  *)
(* renewed (isolated-public.ts updateInstanceId, isolated-private.ts       *)
(* decryptIsolated).                                                       *)
THEOREM RevocationAlwaysFinal == KeySpec => RevocationIsFinal
<1> DEFINE Final == \A j \in DOMAIN privates :
       publics[privates[j].public].instanceId # privates[j].originalInstanceId =>
         publics'[privates'[j].public].instanceId # privates'[j].originalInstanceId
<1>1. KeysInv /\ [KeyNext]_keyVars => KeysInv' /\ [Final]_keyVars
  BY KeysStep DEF StaysRevoked, Revoked
<1> HIDE DEF Final
<1>2. KeySpec => [][Final]_keyVars
  BY <1>1, KeysInitially, PTL DEF KeySpec
<1> QED
  BY <1>2 DEF RevocationIsFinal, Final

(* What a private key, made or read back for a public key of its own pair, *)
(* decrypts is the sum and multiple of what was encrypted; and a ciphertext *)
(* that was changed is decrypted by none, in whatever order keys are made, *)
(* also with the public keys of others, renewed and stored                 *)
(* and ciphertexts added and multiplied (isolated-public.ts encryptIsolated,*)
(* additionIsolated, multiplyIsolated; isolated-private.ts                 *)
(* decryptIsolated): for every key pair that the derivation makes, also of *)
(* numbers that only pass for primes.  The random factor of an encryption  *)
(* is the one of the model, a power of two; AnyFactorDecrypts is about the *)
(* others.                                                                 *)
THEOREM AlwaysDecryptsWhatWasEncrypted == KeySpec => []DecryptsWhatWasEncrypted
<1>1. KeysInv /\ CiphersInv /\ [KeyNext]_keyVars => KeysInv' /\ CiphersInv'
  BY KeysStep, CiphersStep
<1>2. KeyInit => KeysInv /\ CiphersInv
  BY KeysInitially, CiphersInitially
<1> QED
  BY <1>1, <1>2, WorkingKeysDecrypt, PTL DEF KeySpec
=============================================================================
