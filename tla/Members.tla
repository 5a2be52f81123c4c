--------------------------------- MODULE Members ---------------------------------
(***************************************************************************)
(* src/member.ts and the MemberBuilder: members and their keys, made new,  *)
(* from a mnemonic or from JSON.  The state of a member is kept by the     *)
(* Member of @digitaldefiance/ecies-lib; Configurations has the services.  *)
(*                                                                         *)
(* A mnemonic is a number, and so is the key pair it gives.  An id is      *)
(* [number, length]; names, dates and the e-mail address are left out with *)
(* the checks that refuse them.  None is 0, which is no mnemonic.          *)
(***************************************************************************)
EXTENDS Configurations

CONSTANTS
  MaxMembers,      \* bound: Member objects
  MaxMnemonics,    \* bound: mnemonics generated
  MaxMade,         \* bound: signatures and messages, and streams
  MaxStreams

VARIABLES
  members,
  mnemonics,       \* the number of mnemonics there are
  builder,         \* a MemberBuilder: [service, mnemonic, createdBy]
  json,            \* what toJson has given last
  made,            \* what members have signed or encrypted, for which key
  streams          \* generators of decryptDataStream, with the key they have

memberVars == <<members, mnemonics, builder, json, made, streams>>

None == 0
NoKeys == <<>>
Unset == {}

NewBuilder == [service |-> Unset, mnemonic |-> None, createdBy |-> Unset]

MemberInit ==
  /\ members = <<>> /\ mnemonics = 0 /\ json = Unset /\ made = {} /\ streams = <<>>
  /\ builder = NewBuilder

-----------------------------------------------------------------------------
(* The constructor: an id of the service's provider unless one is given,   *)
(* and its own creator unless there is another.  service and original are  *)
(* kept to tell where it comes from.                                       *)
NewId(s) == [number |-> Len(members) + 1, length |-> IdLength[s.constants.provider]]

MemberOf(s, key, private, id, creator, original) ==
  [service |-> s, id |-> id, creator |-> IF creator = Unset THEN id ELSE CHOOSE c \in creator : TRUE,
   publicKey |-> key, privateKey |-> private, wallet |-> private,
   votingPublicKey |-> NoKeys, votingPrivateKey |-> NoKeys, original |-> original]

Add(m) == Len(members) < MaxMembers /\ members' = Append(members, m)

Mnemonics == 1 .. mnemonics
Generated == mnemonics + 1

(* Member.newMember, with a mnemonic or one it generates.                  *)
NewMember(s, mnemonic, createdBy) ==
  /\ ValidProvider(s.constants.provider)
  /\ mnemonic \in Mnemonics \/ (mnemonic = Generated /\ mnemonic <= MaxMnemonics)
  /\ mnemonics' = IF mnemonic = Generated THEN Generated ELSE mnemonics
  /\ Add(MemberOf(s, mnemonic, mnemonic, NewId(s), createdBy, 0))
  /\ UNCHANGED <<builder, json, made, streams>>

(* newMemberWithTypedId calls createNodeTypedConfiguration with one        *)
(* argument or createNodeObjectIdConfiguration: both give the current      *)
(* configuration, and the provider asked for is not used.                  *)
NewMemberWithTypedId(mnemonic, createdBy) ==
  NewMember(ServiceFor(CreateNodeObjectIdConfiguration), mnemonic, createdBy)

(* MemberBuilder.newMember: the configuration is the one of the import.    *)
BuilderNewMember(mnemonic, createdBy) == NewMember(ServiceFor(Constants), mnemonic, createdBy)

(* Member.fromMnemonic makes a member with an id of its own.               *)
FromMnemonic(s, mnemonic) ==
  /\ mnemonic \in Mnemonics /\ ValidProvider(s.constants.provider)
  /\ Add(MemberOf(s, mnemonic, mnemonic, NewId(s), Unset, 0))
  /\ UNCHANGED <<mnemonics, builder, json, made, streams>>

-----------------------------------------------------------------------------
(* A MemberBuilder.  A mnemonic it has generated or been given stays in it *)
(* for the next build.                                                     *)
WithEciesService(s) ==
  /\ builder' = [builder EXCEPT !.service = {s}]
  /\ UNCHANGED <<members, mnemonics, json, made, streams>>

WithMnemonic(mnemonic) ==
  /\ mnemonic \in Mnemonics
  /\ builder' = [builder EXCEPT !.mnemonic = mnemonic]
  /\ UNCHANGED <<members, mnemonics, json, made, streams>>

WithCreatedBy(creator) ==
  /\ builder' = [builder EXCEPT !.createdBy = {creator}]
  /\ UNCHANGED <<members, mnemonics, json, made, streams>>

GenerateMnemonic ==
  /\ builder.service # Unset /\ Generated <= MaxMnemonics
  /\ mnemonics' = Generated
  /\ builder' = [builder EXCEPT !.mnemonic = Generated]
  /\ UNCHANGED <<members, json, made, streams>>

Build ==
  \E s \in builder.service :
    NewMember(s, IF builder.mnemonic = None THEN Generated ELSE builder.mnemonic,
              builder.createdBy)

-----------------------------------------------------------------------------
(* serialize refuses an id that has not the provider's length: a creator   *)
(* from another provider keeps a member from being written.                *)
Serializes(s, id) == id.length = IdLength[s.constants.provider]

(* Mistake the runs must notice: the creator is written where the id is.   *)
JsonOfCreator(m) ==
  [provider |-> members[m].service.constants.provider, id |-> members[m].creator,
   creator |-> members[m].creator, publicKey |-> members[m].publicKey, original |-> m]

JsonOf(m) ==
  [provider |-> members[m].service.constants.provider, id |-> members[m].id,
   creator |-> members[m].creator, publicKey |-> members[m].publicKey, original |-> m]

ToJson(m) ==
  /\ Serializes(members[m].service, members[m].id)
  /\ Serializes(members[m].service, members[m].creator)
  /\ json' = {JsonOf(m)}
  /\ UNCHANGED <<members, mnemonics, builder, made, streams>>

(* deserialize looks at the form alone: a BufferIdProvider takes the hex   *)
(* digits of another provider whose ids are as long.                       *)
Deserializes(s, j) == <<s.constants.provider, j.provider>> \in Reads

(* Member.fromJson, also by MemberBuilder.fromJson with a new service.     *)
FromJson(s) ==
  /\ ValidProvider(s.constants.provider)
  /\ \E j \in json :
       /\ Deserializes(s, j)
       /\ Add(MemberOf(s, j.publicKey, None, j.id, {j.creator}, j.original))
  /\ UNCHANGED <<mnemonics, builder, json, made, streams>>

-----------------------------------------------------------------------------
(* The keys of a member.                                                   *)
Set(m, member) ==
  /\ members' = [members EXCEPT ![m] = member]
  /\ UNCHANGED <<mnemonics, builder, json, made, streams>>

(* Mistake the runs must notice: any mnemonic is taken.                    *)
LoadWalletUnchecked(m, mnemonic) ==
  /\ members[m].wallet = None
  /\ Set(m, [members[m] EXCEPT !.wallet = mnemonic, !.privateKey = mnemonic])

(* loadWallet: only without a wallet, and only with the mnemonic of the    *)
(* member's public key.                                                    *)
LoadWallet(m, mnemonic) ==
  /\ members[m].wallet = None /\ mnemonic = members[m].publicKey
  /\ Set(m, [members[m] EXCEPT !.wallet = mnemonic, !.privateKey = mnemonic])

UnloadWallet(m) == Set(m, [members[m] EXCEPT !.wallet = None])

UnloadPrivateKey(m) == Set(m, [members[m] EXCEPT !.privateKey = None])

UnloadVotingPrivateKey(m) == Set(m, [members[m] EXCEPT !.votingPrivateKey = NoKeys])

(* unloadWalletAndPrivateKey, and dispose with the voting key as well.     *)
Dispose(m) ==
  Set(m, [members[m] EXCEPT !.wallet = None, !.privateKey = None, !.votingPrivateKey = NoKeys])

(* deriveVotingKeys has no await: the keys it loads are of the private key *)
(* and the public key it started with.                                     *)
Derived(privateKey, publicKey) == <<privateKey, publicKey>>

DeriveVotingKeys(m) ==
  LET derived == Derived(members[m].privateKey, members[m].publicKey)
  IN  /\ members[m].privateKey # None
      /\ Set(m, [members[m] EXCEPT !.votingPublicKey = derived, !.votingPrivateKey = derived])

-----------------------------------------------------------------------------
(* What members do with their keys.                                        *)
Make(m, kind, key) ==
  LET thing == [kind |-> kind, by |-> m, key |-> key]
  IN  /\ thing \in made \/ Cardinality(made) < MaxMade
      /\ made' = made \union {thing}
      /\ UNCHANGED <<members, mnemonics, builder, json, streams>>

(* sign and signData.                                                      *)
Sign(m) == members[m].privateKey # None /\ Make(m, "signature", members[m].privateKey)

(* verify; verifySignature is the same with a key of the caller's.         *)
Verifies(m, signature) == signature.key = members[m].publicKey

(* encryptData and encryptDataStream: for the key that is given or the     *)
(* member's own, which need not be able to open it.                        *)
EncryptData(m, recipients) ==
  Make(m, "message", IF recipients = {} THEN members[m].publicKey
                     ELSE CHOOSE key \in recipients : TRUE)

(* decryptData, with the private key there is at the time.                 *)
Decrypts(m, publicKey) ==
  members[m].privateKey # None /\ members[m].privateKey = publicKey

(* A call of decryptDataStream makes a generator and looks at nothing.     *)
DecryptDataStream(m) ==
  /\ Len(streams) < MaxStreams
  /\ streams' = Append(streams, [member |-> m, state |-> "made", key |-> None])
  /\ UNCHANGED <<members, mnemonics, builder, json, made>>

(* The first next() throws without a private key, or copies it, so that    *)
(* the stream goes on whatever is unloaded or disposed of.                 *)
StartStream(i) ==
  LET key == members[streams[i].member].privateKey
  IN  /\ streams[i].state = "made"
      /\ streams' = [streams EXCEPT ![i].state = IF key = None THEN "failed" ELSE "open",
                                    ![i].key = key]
      /\ UNCHANGED <<members, mnemonics, builder, json, made>>

(* Somebody of any provider, who need not have a Member object here.       *)
Creators == {[number |-> 0, length |-> IdLength[p]] : p \in Providers \ Broken}

Services == services \union {DefaultService}

(* Members made or read.                                                   *)
MakingNext ==
  \/ \E s \in Services :
       \/ \E k \in 1 .. MaxMnemonics, by \in {Unset} \union {{c} : c \in Creators} :
            NewMember(s, k, by)
       \/ \E k \in Mnemonics : FromMnemonic(s, k)
       \/ FromJson(s)
  \/ \E k \in 1 .. MaxMnemonics : BuilderNewMember(k, Unset) \/ NewMemberWithTypedId(k, Unset)
  \/ \E m \in DOMAIN members : ToJson(m)

BuilderNext ==
  \/ \E s \in Services : WithEciesService(s)
  \/ \E k \in Mnemonics : WithMnemonic(k)
  \/ \E c \in Creators : WithCreatedBy(c)
  \/ GenerateMnemonic
  \/ Build

KeysNext ==
  \/ \E i \in DOMAIN streams : StartStream(i)
  \/ \E m \in DOMAIN members :
    \/ \E k \in Mnemonics : LoadWallet(m, k)
    \/ UnloadWallet(m) \/ UnloadPrivateKey(m) \/ UnloadVotingPrivateKey(m) \/ Dispose(m)
    \/ DeriveVotingKeys(m)
    \/ Sign(m) \/ DecryptDataStream(m)
    \/ EncryptData(m, {}) \/ \E k \in Mnemonics : EncryptData(m, {k})

-----------------------------------------------------------------------------
(* multi-recipient.ts refuses a recipient whose id has not the size in the *)
(* parameters of the service.                                              *)
Reaches(s, m) == m.id.length = s.recipientIdSize

(* A member of a service has an id of the provider's length, and is a      *)
(* recipient of the service's messages if it was made with the parameters  *)
(* of its configuration; also with the default ones if validateAll has     *)
(* accepted the configuration and ENCRYPTION.RECIPIENT_ID_SIZE is the      *)
(* default one.                                                            *)
MembersCanReceive ==
  \A i \in DOMAIN members :
    LET m == members[i]
        c == m.service.constants
    IN  /\ m.id.length = IdLength[c.provider]
        /\ m.service.recipientIdSize = c.recipientIdSize => Reaches(m.service, m)
        /\ /\ m.service.recipientIdSize = Constants.recipientIdSize
           /\ c \in accepted /\ c.encryptionIdSize = Constants.encryptionIdSize
           => Reaches(m.service, m)

(* A member read from JSON is the one that was written: its id, its        *)
(* creator and its public key, so that two members with one id have one    *)
(* key and what is encrypted for one is opened by the other as soon as it  *)
(* has a private key.                                                      *)
JsonComesBack ==
  /\ \A i \in DOMAIN members : members[i].original # 0 =>
       LET m == members[i]
           o == members[m.original]
       IN  m.id = o.id /\ m.creator = o.creator /\ m.publicKey = o.publicKey
  /\ \A i, j \in DOMAIN members :
       members[i].id = members[j].id /\ members[i].privateKey # None =>
         Decrypts(i, members[j].publicKey)

(* Whatever is loaded, unloaded and derived in whatever order, a private   *)
(* key, a wallet and voting keys are those of the member's public key, and *)
(* so is the key a stream goes on with.  A signature verifies for exactly  *)
(* the members with the signer's public key, and a message is opened by    *)
(* exactly the members with the private key for it.                        *)
KeysBelongToMember ==
  /\ \A i \in DOMAIN members :
       LET m == members[i]
           own == Derived(m.publicKey, m.publicKey)
       IN  /\ m.privateKey \in {None, m.publicKey}
           /\ m.wallet \in {None, m.publicKey}
           /\ m.votingPublicKey \in {NoKeys, own}
           /\ m.votingPrivateKey \in {NoKeys, m.votingPublicKey}
  /\ \A i \in DOMAIN streams :
       streams[i].state = "open" => streams[i].key = members[streams[i].member].publicKey
  /\ \A s \in made, i \in DOMAIN members :
       IF s.kind = "signature"
       THEN Verifies(i, s) <=> members[i].publicKey = members[s.by].publicKey
       ELSE Decrypts(i, s.key) <=> members[i].publicKey = s.key /\ members[i].privateKey # None
=============================================================================
