----------------------------- MODULE Configurations -----------------------------
(***************************************************************************)
(* The runtime configuration of src/constants.ts and typed-configuration,  *)
(* the validator of its invariants, and the ECIESServices made from it.    *)
(* The registry behind it belongs to @digitaldefiance/ecies-lib.           *)
(*                                                                         *)
(* Of a configuration only the id provider and the three sizes that must   *)
(* agree with it are kept; of a service its configuration and the          *)
(* recipient id size of its ECIES parameters, which are an argument of     *)
(* their own.                                                              *)
(***************************************************************************)
EXTENDS Integers, Sequences, FiniteSets

CONSTANTS
  Providers,
  IdLength,            \* byteLength of each provider
  Broken,              \* the providers whose ids have another length
  Reads,               \* pairs of providers: the first reads what the second writes
  DefaultProvider,     \* the ObjectIdProvider
  InvariantNames,      \* of custom invariants
  MaxConfigurations,   \* bound: configurations besides the default one
  MaxServices,         \* bound: services
  MaxInvariants        \* bound: custom invariants at a time

ASSUME ProviderAssumption ==
  /\ DefaultProvider \in Providers \ Broken /\ Broken \subseteq Providers
  /\ IdLength \in [Providers -> 1 .. 255]
  /\ Reads \subseteq {p \in Providers \X Providers : IdLength[p[1]] = IdLength[p[2]]}
  /\ \A p \in Providers : <<p, p>> \in Reads

VARIABLES
  runtimeDefaults,     \* what getNodeRuntimeConfiguration returns
  configurations,      \* the configurations there are
  customInvariants,    \* InvariantValidator.customInvariants
  accepted,            \* history: what validateAll has let pass
  services             \* the services there are

configurationVars == <<runtimeDefaults, configurations, customInvariants, accepted, services>>

(* registerRuntimeConfiguration merges overrides into the default          *)
(* configuration, never into the current one, and brings two of the sizes  *)
(* in line with the provider; the third, ENCRYPTION.RECIPIENT_ID_SIZE, is  *)
(* the caller's business.                                                  *)
Configured(provider, encryption) ==
  [provider |-> provider, memberIdLength |-> IdLength[provider],
   recipientIdSize |-> IdLength[provider], encryptionIdSize |-> encryption]

Constants == Configured(DefaultProvider, IdLength[DefaultProvider])

(* A configuration of @digitaldefiance/ecies-lib itself, which is handed   *)
(* to services and to the validator as well, has no ENCRYPTION.            *)
Absent == 0

BaseConfiguration(provider) == Configured(provider, Absent)

Overrides == {Configured(p, e) : p \in Providers, e \in {IdLength[q] : q \in Providers}}

AllConfigurations == Overrides \union {BaseConfiguration(p) : p \in Providers}

ConfigurationInit ==
  /\ runtimeDefaults = Constants
  /\ configurations = {Constants}
  /\ customInvariants = <<>> /\ accepted = {} /\ services = {}

(* createNodeRuntimeConfiguration leaves the current one in place, and so  *)
(* does whoever gets a configuration from the base library.                *)
CreateNodeRuntimeConfiguration(c) ==
  /\ c \in configurations \/ Cardinality(configurations) <= MaxConfigurations
  /\ configurations' = configurations \union {c}
  /\ UNCHANGED <<runtimeDefaults, customInvariants, accepted, services>>

(* registerNodeRuntimeConfiguration, with or without a key, and            *)
(* createNodeTypedConfiguration with overrides.                            *)
RegisterNodeRuntimeConfiguration(c) ==
  /\ c \in configurations \/ Cardinality(configurations) <= MaxConfigurations
  /\ configurations' = configurations \union {c}
  /\ runtimeDefaults' = c
  /\ UNCHANGED <<customInvariants, accepted, services>>

(* createNodeObjectIdConfiguration, and createNodeTypedConfiguration       *)
(* without overrides, give the current configuration, whatever its         *)
(* provider.                                                               *)
CreateNodeObjectIdConfiguration == runtimeDefaults

-----------------------------------------------------------------------------
(* Mistake the runs must notice: the check of the base library.            *)
CheckOfBase(c) ==
  /\ c.memberIdLength = IdLength[c.provider]
  /\ c.recipientIdSize = IdLength[c.provider]

(* RecipientIdConsistencyInvariant: the size in ENCRYPTION is compared if  *)
(* there is one.                                                           *)
Check(c) ==
  /\ c.memberIdLength = IdLength[c.provider]
  /\ c.recipientIdSize = IdLength[c.provider]
  /\ c.encryptionIdSize \in {IdLength[c.provider], Absent}

(* A custom invariant, here one that wants the default provider.           *)
CustomCheck(name, c) == c.provider = DefaultProvider

RegisterInvariant(name) ==
  /\ Len(customInvariants) < MaxInvariants
  /\ customInvariants' = Append(customInvariants, name)
  /\ UNCHANGED <<runtimeDefaults, configurations, accepted, services>>

(* Of invariants of one name the first goes.                               *)
UnregisterInvariant(name) ==
  LET found == {i \in DOMAIN customInvariants : customInvariants[i] = name}
  IN  /\ found # {}
      /\ LET first == CHOOSE i \in found : \A j \in found : i <= j
         IN  customInvariants' = SubSeq(customInvariants, 1, first - 1)
               \o SubSeq(customInvariants, first + 1, Len(customInvariants))
      /\ UNCHANGED <<runtimeDefaults, configurations, accepted, services>>

ClearCustomInvariants ==
  /\ customInvariants' = <<>>
  /\ UNCHANGED <<runtimeDefaults, configurations, accepted, services>>

(* validateAll asks every invariant and throws when one fails.             *)
ValidateAll(c) ==
  /\ Check(c) /\ \A i \in DOMAIN customInvariants : CustomCheck(customInvariants[i], c)
  /\ accepted' = accepted \union {c}
  /\ UNCHANGED <<runtimeDefaults, configurations, customInvariants, services>>

-----------------------------------------------------------------------------
(* The constructor tries the provider out and throws when its ids have not *)
(* the length it states; it compares no size with that length.             *)
ValidProvider(p) == p \notin Broken

ECIESService(constants, recipientIdSize) ==
  [constants |-> constants, recipientIdSize |-> recipientIdSize]

(* new ECIESService(), or ECIESBuilder.build().                            *)
DefaultService == ECIESService(runtimeDefaults, Constants.recipientIdSize)

(* new ECIESService(c): the parameters are the default ones, not those of  *)
(* c.                                                                      *)
ServiceFor(c) == ECIESService(c, Constants.recipientIdSize)

(* new ECIESService(c, c.ECIES).                                           *)
ServiceWithParameters(c) == ECIESService(c, c.recipientIdSize)

(* CryptoContainer.create(c): the parameters of c with the provider of the *)
(* current configuration.                                                  *)
ContainerService(c) == ECIESService(runtimeDefaults, c.recipientIdSize)

NewService(s) ==
  /\ ValidProvider(s.constants.provider)
  /\ s \notin services /\ Cardinality(services) < MaxServices
  /\ services' = services \union {s}
  /\ UNCHANGED <<runtimeDefaults, configurations, customInvariants, accepted>>

RegistryNext ==
  \/ \E c \in AllConfigurations : CreateNodeRuntimeConfiguration(c)
  \/ \E c \in Overrides : RegisterNodeRuntimeConfiguration(c)
  \/ NewService(DefaultService)
  \/ \E c \in configurations :
       \/ NewService(ServiceFor(c))
       \/ NewService(ServiceWithParameters(c))
       \/ NewService(ContainerService(c))

ValidatorNext ==
  \/ \E name \in InvariantNames : RegisterInvariant(name) \/ UnregisterInvariant(name)
  \/ ClearCustomInvariants
  \/ \E c \in configurations : ValidateAll(c)
=============================================================================
