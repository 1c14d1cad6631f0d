------------------------- MODULE DeviceProvisioning ------------------------
(***************************************************************************)
(* How devices come and go: the commands of the command line that create   *)
(* certificate authorities and device certificates in files, AWS IoT that  *)
(* provisions a device just in time when it connects for the first time,   *)
(* the custom resource that creates the thing group of the devices with    *)
(* the stack and deletes its things with the stack, and the command that   *)
(* purges certificate authorities.                                         *)
(*                                                                         *)
(* One operator runs one command at a time; a command is a series of       *)
(* steps, and may end between any two of them.  The Lambda of the custom   *)
(* resource works through the things of a page, and through their          *)
(* certificates, all at once.  Devices connect and are provisioned at any  *)
(* moment.                                                                 *)
(***************************************************************************)
EXTENDS Integers, FiniteSets

CONSTANTS
  Devices,
  Simulators,  \* those that are no hardware
  CAs,
  NoCA,
  NoCert,
  MaxKeys,    \* bound: private keys a device generates
  PageSize,   \* things in a page of ListThingsInThingGroup
  MaxFaults   \* bound: calls that fail, processes that die

Keys == 1..MaxKeys

\* A certificate says who signed which key of which device.
Certs == [device : Devices, key : Keys, ca : CAs]

ASSUME ProvisioningAssumption ==
  /\ MaxKeys \in Nat /\ MaxFaults \in Nat
  /\ PageSize \in Nat \ {0}
  /\ IsFiniteSet(Devices) /\ Simulators \subseteq Devices
  /\ NoCA \notin CAs
  /\ NoCert \notin Certs

VARIABLES
  caStatus,    \* per CA: its status in AWS IoT
  caFiles,     \* CAs whose certificate and key are stored under their ID
  currentCA,   \* content of the file currentCA
  command,     \* the next step of the running command
  subject,     \* the CA or device it is about
  csr,         \* the key it requests a certificate for
  bundle,      \* the certificate it has signed
  broken,      \* devices whose last command ended early
  key,         \* per device: its private key, 0 for none
  cert,        \* per device: the certificate stored on it
  certStatus,  \* per certificate: its status in AWS IoT
  attached,    \* certificates that are principals of their device's thing
  things,      \* things, all in the thing group
  group,       \* has the thing group been created?
  policy,      \* is the policy of the devices attached to it?
  stack,       \* status of the CloudFormation stack
  handler,     \* the next step of the custom resource's Lambda
  listed,      \* things it has seen in pages so far
  page,        \* per thing: its next step with the thing
  purging,     \* per certificate: its next step with the certificate
  fenced,      \* history: nobody could be provisioned since its deletion began
  interrupted, \* history: a deletion has failed
  faults

commandVars == <<command, subject, csr, bundle, broken>>
fileVars == <<caFiles, currentCA>>
deviceVars == <<key, cert>>
registryVars == <<certStatus, attached, things>>
groupVars == <<group, policy>>
handlerVars == <<handler, listed, page, purging>>
stackVars == <<stack, fenced, interrupted>>

vars == <<caStatus, fileVars, commandVars, deviceVars, registryVars, groupVars, stackVars,
          handlerVars, faults>>

\* The steps of the commands after the first one
CommandSteps == {"idle", "copyFiles", "setCurrent", "sign", "flash", "deleteCA"}

CAStatuses == {"unknown", "active", "inactive", "deleted"}

CertStatuses == {"unknown", "pending", "active", "inactive"}

StackStatuses ==
  {"absent", "creating", "complete", "createFailed", "deleting", "deleted", "deleteFailed"}

HandlerSteps ==
  {"none", "createGroup", "attachPolicy", "listThings", "listPage", "purgePage", "purgeLastPage"}

Idle == command = "idle"

Fail == faults < MaxFaults /\ faults' = faults + 1

CertsOf(d) == {c \in Certs : c.device = d}

\* A first connection with the certificate of a CA starts the provisioning.
CanProvision ==
  (\E c \in CAs : caStatus[c] = "active") \/ (\E c \in Certs : certStatus[c] = "pending")

-----------------------------------------------------------------------------

TypeOK ==
  /\ caStatus \in [CAs -> CAStatuses]
  /\ caFiles \in SUBSET CAs
  /\ currentCA \in CAs \cup {NoCA}
  /\ command \in CommandSteps
  /\ command \in {"copyFiles", "setCurrent", "deleteCA"} => subject \in CAs
  /\ command \in {"sign", "flash"} => subject \in Devices
  /\ csr \in 0..MaxKeys
  /\ bundle \in Certs \cup {NoCert}
  /\ broken \in SUBSET Devices
  /\ key \in [Devices -> 0..MaxKeys]
  /\ cert \in [Devices -> Certs \cup {NoCert}]
  /\ certStatus \in [Certs -> CertStatuses]
  /\ attached \in SUBSET Certs
  /\ things \in SUBSET Devices
  /\ group \in BOOLEAN /\ policy \in BOOLEAN
  /\ stack \in StackStatuses
  /\ handler \in HandlerSteps
  /\ listed \in SUBSET Devices
  /\ page \in [Devices -> {"done", "listPrincipals", "purgePrincipals", "deleteThing"}]
  /\ purging \in [Certs -> {"done", "detach", "deactivate", "delete"}]
  /\ fenced \in BOOLEAN /\ interrupted \in BOOLEAN
  /\ faults \in 0..MaxFaults

Init ==
  /\ caStatus = [c \in CAs |-> "unknown"]
  /\ caFiles = {}
  /\ currentCA = NoCA
  /\ command = "idle"
  /\ subject = NoCA
  /\ csr = 0
  /\ bundle = NoCert
  /\ broken = {}
  /\ key = [d \in Devices |-> 0]
  /\ cert = [d \in Devices |-> NoCert]
  /\ certStatus = [c \in Certs |-> "unknown"]
  /\ attached = {}
  /\ things = {}
  /\ group = FALSE
  /\ policy = FALSE
  /\ stack = "absent"
  /\ handler = "none"
  /\ listed = {}
  /\ page = [d \in Devices |-> "done"]
  /\ purging = [c \in Certs |-> "done"]
  /\ fenced = FALSE
  /\ interrupted = FALSE
  /\ faults = 0

-----------------------------------------------------------------------------
(* The commands create-ca and register-ca                                  *)

\* The outputs of the stack can be read until it is deleted.
HasOutputs == stack \in {"complete", "deleting", "deleteFailed"}

\* create-ca makes a CA of its own, register-ca is given one.
NewCA(c) == caStatus[c] = "unknown"

\* Variant with a fault: the files of the CA are not copied.
RegisterWithoutFiles(c) ==
  /\ Idle
  /\ HasOutputs
  /\ NewCA(c)
  /\ caStatus' = [caStatus EXCEPT ![c] = "active"]
  /\ fenced' = FALSE
  /\ command' = "setCurrent" /\ subject' = c
  /\ UNCHANGED <<fileVars, csr, bundle, broken, deviceVars, registryVars, groupVars, stack,
                 interrupted, handlerVars, faults>>

\* The first change outside of temporary files is the registration, with a
\* template that names the thing group of the stack.
RegisterCA(c) ==
  /\ Idle
  /\ HasOutputs
  /\ NewCA(c)
  /\ caStatus' = [caStatus EXCEPT ![c] = "active"]
  /\ fenced' = FALSE
  /\ command' = "copyFiles" /\ subject' = c
  /\ UNCHANGED <<fileVars, csr, bundle, broken, deviceVars, registryVars, groupVars, stack,
                 interrupted, handlerVars, faults>>

\* Certificate and key are copied to files named by the ID of the CA.
CopyCAFiles ==
  /\ command = "copyFiles"
  /\ caFiles' = caFiles \cup {subject}
  /\ command' = "setCurrent"
  /\ UNCHANGED <<caStatus, currentCA, subject, csr, bundle, broken, deviceVars,
                 registryVars, groupVars, stackVars, handlerVars, faults>>

SetCurrentCA ==
  /\ command = "setCurrent"
  /\ currentCA' = subject
  /\ command' = "idle" /\ subject' = NoCA
  /\ UNCHANGED <<caStatus, caFiles, csr, bundle, broken, deviceVars, registryVars,
                 groupVars, stackVars, handlerVars, faults>>

-----------------------------------------------------------------------------
(* The commands create-and-provision-device-cert and create-simulator-cert *)

\* A device generates a new private key, in place of the one it has, and a CSR
\* for it.
CreateKey(d) ==
  /\ Idle
  /\ d \notin Simulators
  /\ key[d] < MaxKeys
  /\ csr' = key[d] + 1
  /\ key' = [key EXCEPT ![d] = csr']
  /\ command' = "sign" /\ subject' = d
  /\ UNCHANGED <<caStatus, fileVars, bundle, broken, cert, registryVars, groupVars,
                 stackVars, handlerVars, faults>>

\* The new key of a simulator is in a file of its own for now.
CreateSimulatorKey(d) ==
  /\ Idle
  /\ d \in Simulators
  /\ key[d] < MaxKeys
  /\ csr' = key[d] + 1
  /\ command' = "sign" /\ subject' = d
  /\ UNCHANGED <<caStatus, fileVars, bundle, broken, deviceVars, registryVars, groupVars,
                 stackVars, handlerVars, faults>>

\* Variant with a fault: the certificate is for the key the device had.
SignOldKey(c) ==
  /\ command = "sign"
  /\ c \in caFiles
  /\ csr > 1
  /\ bundle' = [device |-> subject, key |-> csr - 1, ca |-> c]
  /\ command' = "flash"
  /\ UNCHANGED <<caStatus, fileVars, subject, csr, broken, deviceVars, registryVars,
                 groupVars, stackVars, handlerVars, faults>>

\* createDeviceCertificate with the CA of the option --ca or the current one
SignCertificate(c) ==
  /\ command = "sign"
  /\ c \in caFiles
  /\ bundle' = [device |-> subject, key |-> csr, ca |-> c]
  /\ command' = "flash"
  /\ UNCHANGED <<caStatus, fileVars, subject, csr, broken, deviceVars, registryVars,
                 groupVars, stackVars, handlerVars, faults>>

\* The command is done with the device.
DeviceDone ==
  /\ broken' = broken \ {subject}
  /\ command' = "idle" /\ subject' = NoCA /\ csr' = 0 /\ bundle' = NoCert

\* The certificate is written to the device.
FlashCertificate ==
  /\ command = "flash"
  /\ subject \notin Simulators
  /\ cert' = [cert EXCEPT ![subject] = bundle]
  /\ DeviceDone
  /\ UNCHANGED <<caStatus, fileVars, key, registryVars, groupVars, stackVars, handlerVars,
                 faults>>

\* A simulator reads certificate and key from one file, which is written now.
WriteSimulatorFile ==
  /\ command = "flash"
  /\ subject \in Simulators
  /\ cert' = [cert EXCEPT ![subject] = bundle]
  /\ key' = [key EXCEPT ![subject] = csr]
  /\ DeviceDone
  /\ UNCHANGED <<caStatus, fileVars, registryVars, groupVars, stackVars, handlerVars, faults>>

-----------------------------------------------------------------------------
(* The command purge-cas                                                   *)

\* What the command works on.  Without an option it iterates over the values
\* of a promise, which has none.
PurgeTargets(option) ==
  CASE option = "caId" -> CAs
    [] option = "current" -> {currentCA} \ {NoCA}
    [] option = "none" -> {}

\* A CA whose template names the thing group becomes inactive ...
DeactivateCA(c) ==
  /\ Idle
  /\ HasOutputs
  /\ \E option \in {"caId", "current", "none"} : c \in PurgeTargets(option)
  /\ caStatus[c] \in {"active", "inactive"}
  /\ caStatus' = [caStatus EXCEPT ![c] = "inactive"]
  /\ command' = "deleteCA" /\ subject' = c
  /\ UNCHANGED <<fileVars, csr, bundle, broken, deviceVars, registryVars, groupVars,
                 stackVars, handlerVars, faults>>

\* ... and is deleted.  Its files stay, and so does currentCA.
DeleteCA ==
  /\ command = "deleteCA"
  /\ caStatus' = [caStatus EXCEPT ![subject] = "deleted"]
  /\ command' = "idle" /\ subject' = NoCA
  /\ UNCHANGED <<fileVars, csr, bundle, broken, deviceVars, registryVars, groupVars,
                 stackVars, handlerVars, faults>>

\* Only a device is left between two states: with a new key and an old
\* certificate.
CommandEnds ==
  /\ broken' = IF command \in {"sign", "flash"} /\ subject \notin Simulators
                 THEN broken \cup {subject} ELSE broken
  /\ command' = "idle" /\ subject' = NoCA /\ csr' = 0 /\ bundle' = NoCert
  /\ UNCHANGED <<caStatus, fileVars, deviceVars, registryVars, groupVars, stackVars,
                 handlerVars>>

\* There is no current CA, or its files are missing.
SigningFails ==
  /\ command = "sign"
  /\ currentCA \notin caFiles
  /\ CommandEnds
  /\ UNCHANGED faults

\* A call fails, or the operator stops the command.
CommandFails == ~Idle /\ Fail /\ CommandEnds

-----------------------------------------------------------------------------
(* Devices and AWS IoT                                                     *)

\* The device has a certificate and the key it was made for.
HasCertificate(d) == cert[d] # NoCert /\ cert[d].key = key[d]

CAActive(c) == caStatus[c.ca] = "active"

\* A certificate AWS IoT has never seen is registered if its CA is active; the
\* device is disconnected.
RegisterCertificate(d) ==
  /\ HasCertificate(d)
  /\ certStatus[cert[d]] = "unknown"
  /\ CAActive(cert[d])
  /\ certStatus' = [certStatus EXCEPT ![cert[d]] = "pending"]
  /\ UNCHANGED <<caStatus, fileVars, commandVars, deviceVars, attached, things, groupVars,
                 stackVars, handlerVars, faults>>

\* The resources of the template, with the role of the stack: a thing in the
\* thing group, and the certificate, active and attached to it.
Provision(c) ==
  /\ certStatus[c] = "pending"
  /\ CAActive(c)
  /\ group /\ stack # "deleted"
  /\ certStatus' = [certStatus EXCEPT ![c] = "active"]
  /\ attached' = attached \cup {c}
  /\ things' = things \cup {c.device}
  /\ UNCHANGED <<caStatus, fileVars, commandVars, deviceVars, groupVars, stackVars,
                 handlerVars, faults>>

\* The policy of the group demands a certificate that is attached to a thing.
MayConnect(d) ==
  /\ HasCertificate(d)
  /\ certStatus[cert[d]] = "active"
  /\ cert[d] \in attached
  /\ d \in things /\ policy

-----------------------------------------------------------------------------
(* The custom resource                                                     *)

\* CloudFormation has created policy and role, and sends a Create event.
CreateStack ==
  /\ stack = "absent"
  /\ stack' = "creating"
  /\ handler' = "createGroup"
  /\ UNCHANGED <<caStatus, fileVars, commandVars, deviceVars, registryVars, groupVars,
                 fenced, interrupted, listed, page, purging, faults>>

CreateGroup ==
  /\ handler = "createGroup"
  /\ group' = TRUE
  /\ handler' = "attachPolicy"
  /\ UNCHANGED <<caStatus, fileVars, commandVars, deviceVars, registryVars, policy,
                 stackVars, listed, page, purging, faults>>

\* Variant with a fault: the policy is left out.
SkipPolicy ==
  /\ handler = "attachPolicy"
  /\ handler' = "listThings"
  /\ UNCHANGED <<caStatus, fileVars, commandVars, deviceVars, registryVars, groupVars,
                 stackVars, listed, page, purging, faults>>

AttachPolicy ==
  /\ handler = "attachPolicy"
  /\ policy' = TRUE
  /\ handler' = "listThings"
  /\ UNCHANGED <<caStatus, fileVars, commandVars, deviceVars, registryVars, group,
                 stackVars, listed, page, purging, faults>>

\* The existing things are listed and never added to the group: AddExisting
\* arrives as "true" or "false" and is compared with "1".
ListExisting ==
  /\ handler = "listThings"
  /\ handler' = "none"
  /\ stack' = "complete"
  /\ UNCHANGED <<caStatus, fileVars, commandVars, deviceVars, registryVars, groupVars,
                 fenced, interrupted, listed, page, purging, faults>>

\* The stack is deleted, a failed creation is rolled back, or a failed deletion
\* is tried again.
DeleteStack ==
  /\ stack \in {"complete", "createFailed", "deleteFailed"}
  /\ stack' = "deleting"
  /\ fenced' = ~CanProvision
  /\ handler' = "listPage"
  /\ UNCHANGED <<caStatus, fileVars, commandVars, deviceVars, registryVars, groupVars,
                 interrupted, listed, page, purging, faults>>

\* A page of things of the group that were in no page so far, and whether it is
\* the last one.
ListPage ==
  /\ handler = "listPage"
  /\ group
  /\ \E next \in SUBSET (things \ listed) :
       LET more == (things \ listed) \ next # {} IN
       /\ Cardinality(next) <= PageSize
       /\ more => Cardinality(next) = PageSize
       /\ listed' = listed \cup next
       /\ page' = [d \in Devices |-> IF d \in next THEN "listPrincipals" ELSE "done"]
       /\ handler' = IF more THEN "purgePage" ELSE "purgeLastPage"
  /\ UNCHANGED <<caStatus, fileVars, commandVars, deviceVars, registryVars, groupVars,
                 stackVars, purging, faults>>

\* The certificates of a thing of the page
ListPrincipals(d) ==
  /\ page[d] = "listPrincipals"
  /\ page' = [page EXCEPT ![d] = "purgePrincipals"]
  /\ purging' = [c \in Certs |-> IF c \in attached \cap CertsOf(d) THEN "detach" ELSE purging[c]]
  /\ UNCHANGED <<caStatus, fileVars, commandVars, deviceVars, registryVars, groupVars,
                 stackVars, handler, listed, faults>>

Detach(c) ==
  /\ purging[c] = "detach"
  /\ attached' = attached \ {c}
  /\ purging' = [purging EXCEPT ![c] = "deactivate"]
  /\ UNCHANGED <<caStatus, fileVars, commandVars, deviceVars, certStatus, things,
                 groupVars, stackVars, handler, listed, page, faults>>

\* Variant with a fault: the certificate stays active.
SkipDeactivation(c) ==
  /\ purging[c] = "deactivate"
  /\ purging' = [purging EXCEPT ![c] = "delete"]
  /\ UNCHANGED <<caStatus, fileVars, commandVars, deviceVars, registryVars, groupVars,
                 stackVars, handler, listed, page, faults>>

Deactivate(c) ==
  /\ purging[c] = "deactivate"
  /\ certStatus' = [certStatus EXCEPT ![c] = "inactive"]
  /\ purging' = [purging EXCEPT ![c] = "delete"]
  /\ UNCHANGED <<caStatus, fileVars, commandVars, deviceVars, attached, things, groupVars,
                 stackVars, handler, listed, page, faults>>

\* AWS IoT knows nothing of a deleted certificate, and registers it again when
\* it is used.
DeleteCertificate(c) ==
  /\ purging[c] = "delete"
  /\ certStatus[c] = "inactive"
  /\ certStatus' = [certStatus EXCEPT ![c] = "unknown"]
  /\ purging' = [purging EXCEPT ![c] = "done"]
  /\ UNCHANGED <<caStatus, fileVars, commandVars, deviceVars, attached, things, groupVars,
                 stackVars, handler, listed, page, faults>>

PrincipalsPurged(d) == \A c \in CertsOf(d) : purging[c] = "done"

HasPrincipals(d) == attached \cap CertsOf(d) # {}

DeleteThing(d) ==
  /\ page[d] = "purgePrincipals"
  /\ PrincipalsPurged(d)
  /\ ~HasPrincipals(d)
  /\ things' = things \ {d}
  /\ page' = [page EXCEPT ![d] = "done"]
  /\ UNCHANGED <<caStatus, fileVars, commandVars, deviceVars, certStatus, attached,
                 groupVars, stackVars, handler, listed, purging, faults>>

PageDone == \A d \in Devices : page[d] = "done"

\* Variant with a fault: the token is ignored.
ForgetPages ==
  /\ handler = "purgePage"
  /\ PageDone
  /\ handler' = "purgeLastPage"
  /\ UNCHANGED <<caStatus, fileVars, commandVars, deviceVars, registryVars, groupVars, stackVars,
                 listed, page, purging, faults>>

\* The next page, with the token of the last one
NextPage ==
  /\ handler = "purgePage"
  /\ PageDone
  /\ handler' = "listPage"
  /\ UNCHANGED <<caStatus, fileVars, commandVars, deviceVars, registryVars, groupVars,
                 stackVars, listed, page, purging, faults>>

\* Success is reported after the last page.  The group stays.
ReportDeleted ==
  /\ handler = "purgeLastPage"
  /\ PageDone
  /\ handler' = "none"
  /\ listed' = {}
  /\ stack' = "deleted"
  /\ UNCHANGED <<caStatus, fileVars, commandVars, deviceVars, registryVars, groupVars,
                 fenced, interrupted, page, purging, faults>>

\* The first error is reported as a failure and ends what runs in parallel.
HandlerEnds ==
  /\ handler' = "none"
  /\ listed' = {}
  /\ page' = [d \in Devices |-> "done"]
  /\ purging' = [c \in Certs |-> "done"]
  /\ stack' = IF stack = "creating" THEN "createFailed" ELSE "deleteFailed"
  /\ interrupted' = (interrupted \/ stack = "deleting")
  /\ UNCHANGED <<caStatus, fileVars, commandVars, deviceVars, registryVars, groupVars,
                 fenced>>

\* There is no group to list, or a thing has got a certificate again.
HandlerRejected ==
  /\ \/ handler = "listPage" /\ ~group
     \/ \E d \in Devices : page[d] = "purgePrincipals" /\ PrincipalsPurged(d) /\ HasPrincipals(d)
  /\ HandlerEnds
  /\ UNCHANGED faults

\* A call fails, or the Lambda runs into its timeout.
HandlerFails == handler # "none" /\ Fail /\ HandlerEnds

-----------------------------------------------------------------------------

CommandStep ==
  \/ \E c \in CAs : RegisterCA(c) \/ DeactivateCA(c) \/ SignCertificate(c)
  \/ CopyCAFiles
  \/ SetCurrentCA
  \/ \E d \in Devices : CreateKey(d) \/ CreateSimulatorKey(d)
  \/ FlashCertificate
  \/ WriteSimulatorFile
  \/ DeleteCA
  \/ SigningFails
  \/ CommandFails

DeviceStep ==
  \/ \E d \in Devices : RegisterCertificate(d)
  \/ \E c \in Certs : Provision(c)

HandlerStep ==
  \/ CreateGroup
  \/ AttachPolicy
  \/ ListExisting
  \/ ListPage
  \/ \E d \in Devices : ListPrincipals(d) \/ DeleteThing(d)
  \/ \E c \in Certs : Detach(c) \/ Deactivate(c) \/ DeleteCertificate(c)
  \/ NextPage
  \/ ReportDeleted
  \/ HandlerRejected

StackStep == CreateStack \/ DeleteStack

Next == CommandStep \/ DeviceStep \/ HandlerStep \/ HandlerFails \/ StackStep

Spec == Init /\ [][Next]_vars

(***************************************************************************)
(* Devices try again to connect, AWS IoT provisions what is pending, and   *)
(* the Lambda goes on.  Nothing is assumed of the operator.                *)
(***************************************************************************)
Fairness ==
  /\ \A d \in Devices : WF_vars(RegisterCertificate(d))
  /\ \A c \in Certs : WF_vars(Provision(c))
  /\ WF_vars(HandlerStep)

LiveSpec == Spec /\ Fairness

-----------------------------------------------------------------------------
(* What is promised                                                        *)

(***************************************************************************)
(* A private key is never renewed for nothing: unless a command is at work *)
(* on a device, or the last one ended early, the certificate stored on the *)
(* device is for the key in it.  The key is replaced before it is known    *)
(* whether there is a CA to sign the certificate.                          *)
(***************************************************************************)
KeyMatchesCertificate ==
  \A d \in Devices :
    \/ HasCertificate(d)
    \/ key[d] = 0
    \/ subject = d
    \/ d \in broken

(***************************************************************************)
(* A certificate that is active, but attached to no thing, can neither be  *)
(* used nor provisioned again.  None is left behind, whatever is           *)
(* provisioned while the stack is deleted, unless the Lambda has failed.   *)
(***************************************************************************)
NoCertificateLeftBehind ==
  \A c \in Certs :
    certStatus[c] = "active" /\ c \notin attached => purging[c] = "deactivate" \/ interrupted

(***************************************************************************)
(* No thing survives the stack, even if the Lambda has failed before and   *)
(* the deletion was repeated, provided that nobody could be provisioned    *)
(* any more: all CAs were purged when the deletion began.                  *)
(***************************************************************************)
DeletedForGood == stack = "deleted" /\ fenced => things = {}

(***************************************************************************)
(* Purging the CAs, which is what comes before the deletion of a stack,    *)
(* disconnects nobody: a device that may connect stays so until a command  *)
(* works on it, or the stack is deleted.                                   *)
(***************************************************************************)
ConnectionIsKept ==
  [][\A d \in Devices :
       MayConnect(d) /\ ~MayConnect(d)' => subject = d \/ subject' = d \/ stack = "deleting"]_vars

(***************************************************************************)
(* What is known of certificates, their CAs, the running command and the   *)
(* Lambda at any time; the promises above follow from it.                  *)
(***************************************************************************)
CertificatesHaveCAs ==
  /\ \A c \in caFiles : caStatus[c] # "unknown"
  /\ currentCA # NoCA => currentCA \in caFiles
  /\ \A d \in Devices : cert[d] # NoCert => cert[d].device = d /\ cert[d].ca \in caFiles
  /\ \A c \in Certs : certStatus[c] # "unknown" => caStatus[c.ca] # "unknown"

CommandIsConsistent ==
  /\ command \in {"copyFiles", "setCurrent", "deleteCA"} => caStatus[subject] # "unknown"
  /\ command = "setCurrent" => subject \in caFiles
  /\ command \in {"sign", "flash"} => csr > 0
  /\ command = "flash" =>
       /\ bundle # NoCert
       /\ bundle.device = subject /\ bundle.key = csr /\ bundle.ca \in caFiles

\* Only the command that is at work on a device knows more than its files say.
KeysAreBacked ==
  /\ command \in {"sign", "flash"} /\ subject \notin Simulators => key[subject] = csr
  /\ \A d \in Devices :
       \/ HasCertificate(d)
       \/ key[d] = 0
       \/ d \notin Simulators /\ command \in {"sign", "flash"} /\ subject = d
       \/ d \in broken

HandlerIsConsistent ==
  /\ handler \in {"createGroup", "attachPolicy", "listThings"} => stack = "creating"
  /\ handler \in {"listPage", "purgePage", "purgeLastPage"} => stack = "deleting"
  /\ stack # "deleting" => listed = {}
  /\ stack \notin {"creating", "deleting"} => handler = "none"
  /\ ~PageDone => handler \in {"purgePage", "purgeLastPage"}
  /\ \A c \in Certs :
       /\ purging[c] # "done" => page[c.device] = "purgePrincipals"
       /\ c \in attached \/ purging[c] \in {"detach", "deactivate"} => certStatus[c] = "active"
       /\ purging[c] = "delete" => certStatus[c] = "inactive"
       /\ purging[c] \in {"deactivate", "delete"} => c \notin attached
  /\ \A c \in attached : c.device \in things

\* Behind the fence every listed thing is deleted or about to be.
FenceHolds ==
  fenced =>
    /\ ~CanProvision
    /\ \A d \in things \cap listed : page[d] # "done"
    /\ handler = "purgeLastPage" => things \subseteq listed

DeviceInvariant ==
  /\ TypeOK
  /\ CertificatesHaveCAs
  /\ CommandIsConsistent
  /\ KeysAreBacked
  /\ HandlerIsConsistent
  /\ FenceHolds

(***************************************************************************)
(* A device with a certificate of a CA that stays active is provisioned    *)
(* sooner or later, as long as the stack is there, and may connect from    *)
(* then on, whatever failed before.                                        *)
(***************************************************************************)
Provisionable(d) == HasCertificate(d) /\ CAActive(cert[d]) /\ stack = "complete"

EveryDeviceConnects == \A d \in Devices : <>[]Provisionable(d) => <>[]MayConnect(d)

(***************************************************************************)
(* What EveryDeviceConnects takes for granted: until the stack is deleted  *)
(* no certificate loses its thing or its status, so a device that can be   *)
(* provisioned may connect, or its next connection starts or completes the *)
(* provisioning.  Neither a failure nor another command is a dead end.     *)
(***************************************************************************)
ProvisioningGoesOn ==
  \A d \in Devices :
    Provisionable(d) =>
      \/ MayConnect(d)
      \/ certStatus[cert[d]] = "unknown"
      \/ certStatus[cert[d]] = "pending" /\ group

IntactUntilDeletion ==
  /\ stack \notin {"deleting", "deleteFailed", "deleted"} =>
       \A c \in Certs :
         certStatus[c] # "inactive" /\ (certStatus[c] = "active" => c \in attached)
  /\ handler = "attachPolicy" => group
  /\ handler = "listThings" \/ stack = "complete" => group /\ policy
=============================================================================
