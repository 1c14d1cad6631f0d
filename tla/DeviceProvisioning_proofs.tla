---------------------- MODULE DeviceProvisioning_proofs ---------------------
(***************************************************************************)
(* Proofs about the provisioning of devices, for any number of devices,    *)
(* certificate authorities, keys, pages and failures.                      *)
(***************************************************************************)
EXTENDS DeviceProvisioning, TLAPS

-----------------------------------------------------------------------------
(* Types                                                                   *)

\* The first steps of the commands that handle certificate authorities, and
\* those of the purge, keep the types.
LEMMA CATypeOK ==
  ASSUME TypeOK,
         \/ \E c \in CAs : RegisterCA(c) \/ DeactivateCA(c)
         \/ CopyCAFiles \/ SetCurrentCA \/ DeleteCA
  PROVE  TypeOK'
<1> USE ProvisioningAssumption
        DEF TypeOK, commandVars, fileVars, deviceVars, registryVars, groupVars, handlerVars,
            stackVars, CommandSteps, CAStatuses
<1>1. ASSUME NEW c \in CAs, RegisterCA(c) PROVE TypeOK'
  BY <1>1 DEF RegisterCA
<1>2. ASSUME NEW c \in CAs, DeactivateCA(c) PROVE TypeOK'
  BY <1>2 DEF DeactivateCA
<1>3. CASE CopyCAFiles
  BY <1>3 DEF CopyCAFiles
<1>4. CASE SetCurrentCA
  BY <1>4 DEF SetCurrentCA
<1>5. CASE DeleteCA
  BY <1>5 DEF DeleteCA
<1> QED
  BY <1>1, <1>2, <1>3, <1>4, <1>5

\* A command that ends early keeps the types.
LEMMA CommandEndsTypeOK ==
  ASSUME TypeOK, CommandEnds, faults' \in 0..MaxFaults
  PROVE  TypeOK'
<1>1. broken' \in SUBSET Devices
  BY DEF CommandEnds, TypeOK
<1> QED
  BY <1>1, ProvisioningAssumption
     DEF CommandEnds, TypeOK, fileVars, deviceVars, registryVars, groupVars, handlerVars,
         stackVars, CommandSteps

\* A call that fails is within the bound of failures.
LEMMA FailCounts == TypeOK /\ Fail => faults' \in 0..MaxFaults
BY ProvisioningAssumption DEF TypeOK, Fail

\* The steps of the commands that handle devices keep the types.
LEMMA DeviceCommandTypeOK ==
  ASSUME TypeOK, CommandIsConsistent,
         \/ \E d \in Devices : CreateKey(d) \/ CreateSimulatorKey(d)
         \/ \E c \in CAs : SignCertificate(c)
         \/ FlashCertificate \/ WriteSimulatorFile \/ SigningFails \/ CommandFails
  PROVE  TypeOK'
<1> USE ProvisioningAssumption
        DEF TypeOK, commandVars, fileVars, deviceVars, registryVars, groupVars, handlerVars,
            stackVars, CommandSteps
<1>1. ASSUME NEW d \in Devices, CreateKey(d) PROVE TypeOK'
  BY <1>1 DEF CreateKey
<1>2. ASSUME NEW d \in Devices, CreateSimulatorKey(d) PROVE TypeOK'
  BY <1>2 DEF CreateSimulatorKey
<1>3. ASSUME NEW c \in CAs, SignCertificate(c) PROVE TypeOK'
  <2>1. bundle' \in Certs
    BY <1>3 DEF SignCertificate, CommandIsConsistent, Certs, Keys
  <2> QED
    BY <1>3, <2>1 DEF SignCertificate
<1>4. CASE FlashCertificate
  BY <1>4 DEF FlashCertificate, DeviceDone
<1>5. CASE WriteSimulatorFile
  BY <1>5 DEF WriteSimulatorFile, DeviceDone
<1>6. CASE SigningFails \/ CommandFails
  BY <1>6, CommandEndsTypeOK, FailCounts DEF SigningFails, CommandFails
<1> QED
  BY <1>1, <1>2, <1>3, <1>4, <1>5, <1>6

\* Connections of devices and just-in-time provisioning keep the types.
LEMMA DeviceStepTypeOK == TypeOK /\ DeviceStep => TypeOK'
<1> SUFFICES ASSUME TypeOK, DeviceStep PROVE TypeOK'
  OBVIOUS
<1> USE DEF TypeOK, commandVars, fileVars, deviceVars, registryVars, groupVars, handlerVars,
            stackVars, CertStatuses
<1>1. ASSUME NEW d \in Devices, RegisterCertificate(d) PROVE TypeOK'
  BY <1>1 DEF RegisterCertificate, HasCertificate
<1>2. ASSUME NEW c \in Certs, Provision(c) PROVE TypeOK'
  <2>1. c.device \in Devices
    BY DEF Certs
  <2> QED
    BY <1>2, <2>1 DEF Provision
<1> QED
  BY <1>1, <1>2 DEF DeviceStep

\* The Lambda of the custom resource that ends early keeps the types.
LEMMA HandlerEndsTypeOK ==
  ASSUME TypeOK, HandlerEnds, faults' \in 0..MaxFaults
  PROVE  TypeOK'
BY DEF HandlerEnds, TypeOK, commandVars, fileVars, deviceVars, registryVars, groupVars,
   HandlerSteps, StackStatuses

\* So do its other steps ...
LEMMA HandlerStepTypeOK == TypeOK /\ HandlerStep => TypeOK'
<1> SUFFICES ASSUME TypeOK, HandlerStep PROVE TypeOK'
  OBVIOUS
<1> USE DEF TypeOK, commandVars, fileVars, deviceVars, registryVars, groupVars, handlerVars,
            stackVars, HandlerSteps, StackStatuses, CertStatuses
<1>1. CASE CreateGroup \/ AttachPolicy \/ ListExisting \/ NextPage \/ ReportDeleted
  <2>1. CASE CreateGroup \/ AttachPolicy
    <3>1. group' \in BOOLEAN /\ policy' \in BOOLEAN
      BY <2>1 DEF CreateGroup, AttachPolicy
    <3>2. handler' \in HandlerSteps
      BY <2>1 DEF CreateGroup, AttachPolicy
    <3>3. UNCHANGED <<caStatus, fileVars, commandVars, deviceVars, registryVars, stackVars,
                      listed, page, purging, faults>>
      BY <2>1 DEF CreateGroup, AttachPolicy
    <3> QED
      BY <3>1, <3>2, <3>3
  <2>2. CASE ListExisting \/ NextPage
    BY <2>2 DEF ListExisting, NextPage
  <2>3. CASE ReportDeleted
    BY <2>3 DEF ReportDeleted
  <2> QED
    BY <1>1, <2>1, <2>2, <2>3
<1>2. CASE ListPage
  BY <1>2 DEF ListPage
<1>3. ASSUME NEW d \in Devices, ListPrincipals(d) \/ DeleteThing(d) PROVE TypeOK'
  BY <1>3 DEF ListPrincipals, DeleteThing
<1>4. ASSUME NEW c \in Certs, Detach(c) \/ Deactivate(c) \/ DeleteCertificate(c)
      PROVE  TypeOK'
  BY <1>4 DEF Detach, Deactivate, DeleteCertificate
<1>5. CASE HandlerRejected
  BY <1>5, HandlerEndsTypeOK DEF HandlerRejected
<1> QED
  BY <1>1, <1>2, <1>3, <1>4, <1>5 DEF HandlerStep

\* ... and the operations on the stack.
LEMMA StackStepTypeOK == TypeOK /\ (StackStep \/ UNCHANGED vars) => TypeOK'
<1> USE DEF TypeOK, commandVars, fileVars, deviceVars, registryVars, groupVars, handlerVars,
            stackVars, HandlerSteps, StackStatuses
<1>1. TypeOK /\ CreateStack => TypeOK'
  BY DEF CreateStack
<1>2. TypeOK /\ DeleteStack => TypeOK'
  <2>1. CanProvision \in BOOLEAN
    BY DEF CanProvision
  <2> QED
    BY <2>1 DEF DeleteStack
<1>3. TypeOK /\ UNCHANGED vars => TypeOK'
  BY DEF vars
<1> QED
  BY <1>1, <1>2, <1>3 DEF StackStep

\* The system starts in a state of the right type.
LEMMA InitTypeOK == Init => TypeOK
<1> SUFFICES ASSUME Init PROVE TypeOK
  OBVIOUS
<1> USE DEF Init
<1>1. /\ caStatus \in [CAs -> CAStatuses]
      /\ certStatus \in [Certs -> CertStatuses]
      /\ stack \in StackStatuses /\ handler \in HandlerSteps /\ command \in CommandSteps
  BY DEF CAStatuses, CertStatuses, StackStatuses, HandlerSteps, CommandSteps
<1>2. /\ csr \in 0..MaxKeys /\ faults \in 0..MaxFaults /\ key \in [Devices -> 0..MaxKeys]
  BY ProvisioningAssumption
<1> QED
  BY <1>1, <1>2 DEF TypeOK

\* Every step keeps the types of the variables.
LEMMA NextTypeOK == TypeOK /\ CommandIsConsistent /\ [Next]_vars => TypeOK'
<1>1. TypeOK /\ CommandIsConsistent /\ CommandStep => TypeOK'
  BY CATypeOK, DeviceCommandTypeOK DEF CommandStep
<1>2. TypeOK /\ HandlerFails => TypeOK'
  BY HandlerEndsTypeOK, FailCounts DEF HandlerFails
<1> QED
  BY <1>1, <1>2, DeviceStepTypeOK, HandlerStepTypeOK, StackStepTypeOK DEF Next

-----------------------------------------------------------------------------
(* Commands                                                                *)

\* Steps of the Lambda and of the stack leave the commands, the files and the
\* devices alone, and forget certificates at most.
LEMMA StackSteps ==
  ASSUME HandlerStep \/ HandlerFails \/ StackStep \/ UNCHANGED vars
  PROVE  /\ UNCHANGED <<caStatus, fileVars, commandVars, deviceVars>>
         /\ \/ UNCHANGED certStatus
            \/ \E c \in Certs, s \in {"inactive", "unknown"} :
                 /\ certStatus' = [certStatus EXCEPT ![c] = s]
                 /\ s = "inactive" => purging[c] = "deactivate"
<1>1. CASE HandlerStep
  <2>1. CASE \E c \in Certs : Deactivate(c) \/ DeleteCertificate(c)
    BY <2>1 DEF Deactivate, DeleteCertificate
  <2>2. CASE \E c \in Certs : Detach(c)
    BY <2>2 DEF Detach
  <2>3. CASE \E d \in Devices : ListPrincipals(d) \/ DeleteThing(d)
    BY <2>3 DEF ListPrincipals, DeleteThing, registryVars
  <2> QED
    BY <1>1, <2>1, <2>2, <2>3
       DEF HandlerStep, CreateGroup, AttachPolicy, ListExisting, ListPage, NextPage,
           ReportDeleted, HandlerRejected, HandlerEnds, registryVars
<1>2. CASE HandlerFails \/ StackStep \/ UNCHANGED vars
  BY <1>2 DEF HandlerFails, HandlerEnds, StackStep, CreateStack, DeleteStack, vars, registryVars
<1> QED
  BY <1>1, <1>2

\* The parts of a certificate
LEMMA CertIsRecord == \A c \in Certs : c.device \in Devices /\ c.key \in Keys /\ c.ca \in CAs
BY DEF Certs

\* Every certificate, stored or registered, is signed by a CA that was
\* registered, and the current one can sign.
LEMMA NextCertificatesHaveCAs ==
  ASSUME DeviceInvariant, [Next]_vars
  PROVE  CertificatesHaveCAs'
<1> USE DEF DeviceInvariant, TypeOK, CertificatesHaveCAs, CommandIsConsistent, fileVars,
            deviceVars, registryVars
<1>1. ASSUME NEW c \in CAs, RegisterCA(c) \/ DeactivateCA(c) PROVE CertificatesHaveCAs'
  BY <1>1, CertIsRecord DEF RegisterCA, DeactivateCA
<1>2. CASE CopyCAFiles
  BY <1>2 DEF CopyCAFiles
<1>3. CASE SetCurrentCA
  BY <1>3 DEF SetCurrentCA
<1>4. CASE DeleteCA
  BY <1>4, CertIsRecord DEF DeleteCA
<1>5. CASE FlashCertificate \/ WriteSimulatorFile
  BY <1>5 DEF FlashCertificate, WriteSimulatorFile
<1>6. ASSUME NEW d \in Devices, CreateKey(d) \/ CreateSimulatorKey(d)
      PROVE  CertificatesHaveCAs'
  BY <1>6 DEF CreateKey, CreateSimulatorKey
<1>7. CASE SigningFails \/ CommandFails \/ \E c \in CAs : SignCertificate(c)
  BY <1>7 DEF SigningFails, CommandFails, CommandEnds, SignCertificate
<1>8. ASSUME NEW d \in Devices, RegisterCertificate(d) PROVE CertificatesHaveCAs'
  BY <1>8 DEF RegisterCertificate, CAActive
<1>9. ASSUME NEW c \in Certs, Provision(c) PROVE CertificatesHaveCAs'
  BY <1>9 DEF Provision, CAActive
<1>10. CASE HandlerStep \/ HandlerFails \/ StackStep \/ UNCHANGED vars
  <2>1. UNCHANGED <<caStatus, caFiles, currentCA, cert>>
    BY <1>10, StackSteps
  <2>2. \A c \in Certs : certStatus'[c] # "unknown" => caStatus[c.ca] # "unknown"
    <3>1. CASE UNCHANGED certStatus
      BY <3>1
    <3>2. ASSUME NEW c \in Certs, NEW s \in {"inactive", "unknown"},
                 certStatus' = [certStatus EXCEPT ![c] = s],
                 s = "inactive" => purging[c] = "deactivate"
          PROVE  \A x \in Certs : certStatus'[x] # "unknown" => caStatus[x.ca] # "unknown"
      BY <3>2 DEF HandlerIsConsistent
    <3> QED
      BY <1>10, StackSteps, <3>1, <3>2
  <2> QED
    BY <2>1, <2>2
<1> QED
  BY <1>1, <1>2, <1>3, <1>4, <1>5, <1>6, <1>7, <1>8, <1>9, <1>10
     DEF Next, CommandStep, DeviceStep

\* A command knows a CA that was registered, or a device and the certificate it
\* makes.
LEMMA NextCommandIsConsistent ==
  ASSUME DeviceInvariant, [Next]_vars
  PROVE  CommandIsConsistent'
<1> USE DEF DeviceInvariant, TypeOK, CertificatesHaveCAs, CommandIsConsistent, fileVars,
            commandVars
<1>1. ASSUME NEW c \in CAs, RegisterCA(c) \/ DeactivateCA(c) PROVE CommandIsConsistent'
  BY <1>1 DEF RegisterCA, DeactivateCA, Idle
<1>2. CASE CopyCAFiles
  BY <1>2 DEF CopyCAFiles
<1>3. CASE SetCurrentCA
  BY <1>3 DEF SetCurrentCA
<1>4. CASE DeleteCA
  BY <1>4 DEF DeleteCA
<1>5. CASE FlashCertificate \/ WriteSimulatorFile
  BY <1>5 DEF FlashCertificate, WriteSimulatorFile, DeviceDone
<1>6. ASSUME NEW d \in Devices, CreateKey(d) \/ CreateSimulatorKey(d)
      PROVE  CommandIsConsistent'
  BY <1>6 DEF CreateKey, CreateSimulatorKey
<1>7. ASSUME NEW c \in CAs, SignCertificate(c) PROVE CommandIsConsistent'
  <2>1. bundle' \in Certs
    BY <1>7, ProvisioningAssumption DEF SignCertificate, Certs, Keys
  <2> QED
    BY <1>7, <2>1, ProvisioningAssumption DEF SignCertificate
<1>8. CASE SigningFails \/ CommandFails
  BY <1>8 DEF SigningFails, CommandFails, CommandEnds
<1>9. CASE DeviceStep
  BY <1>9 DEF DeviceStep, RegisterCertificate, Provision
<1>10. CASE HandlerStep \/ HandlerFails \/ StackStep \/ UNCHANGED vars
  BY <1>10, StackSteps
<1> QED
  BY <1>1, <1>2, <1>3, <1>4, <1>5, <1>6, <1>7, <1>8, <1>9, <1>10 DEF Next, CommandStep

\* A key is replaced together with its certificate, or the device is marked.
LEMMA NextKeysAreBacked ==
  ASSUME DeviceInvariant, [Next]_vars
  PROVE  KeysAreBacked'
<1> USE DEF DeviceInvariant, TypeOK, CommandIsConsistent, KeysAreBacked, HasCertificate,
            deviceVars, commandVars
<1>1. CASE \/ CopyCAFiles \/ SetCurrentCA \/ DeleteCA
           \/ \E c \in CAs : RegisterCA(c) \/ DeactivateCA(c)
  BY <1>1 DEF RegisterCA, DeactivateCA, CopyCAFiles, SetCurrentCA, DeleteCA, Idle
<1>2. ASSUME NEW d \in Devices, CreateKey(d) PROVE KeysAreBacked'
  BY <1>2 DEF CreateKey, Idle
<1>3. ASSUME NEW d \in Devices, CreateSimulatorKey(d) PROVE KeysAreBacked'
  BY <1>3 DEF CreateSimulatorKey, Idle
<1>4. ASSUME NEW c \in CAs, SignCertificate(c) PROVE KeysAreBacked'
  BY <1>4 DEF SignCertificate
<1>5. CASE FlashCertificate
  BY <1>5 DEF FlashCertificate, DeviceDone
<1>6. CASE WriteSimulatorFile
  BY <1>6 DEF WriteSimulatorFile, DeviceDone
<1>7. CASE SigningFails \/ CommandFails
  BY <1>7 DEF SigningFails, CommandFails, CommandEnds
<1>8. CASE DeviceStep
  BY <1>8 DEF DeviceStep, RegisterCertificate, Provision
<1>9. CASE HandlerStep \/ HandlerFails \/ StackStep \/ UNCHANGED vars
  BY <1>9, StackSteps
<1> QED
  BY <1>1, <1>2, <1>3, <1>4, <1>5, <1>6, <1>7, <1>8, <1>9 DEF Next, CommandStep

-----------------------------------------------------------------------------
(* The Lambda of the custom resource                                       *)

\* Where the Lambda is between two of its steps, and what it has done.
LEMMA NextHandlerIsConsistent ==
  ASSUME DeviceInvariant, [Next]_vars
  PROVE  HandlerIsConsistent'
<1> USE DEF DeviceInvariant, TypeOK, HandlerIsConsistent, PageDone, handlerVars,
            registryVars, stackVars
<1>1. CASE CommandStep
  <2>1. UNCHANGED <<handlerVars, registryVars, stack>>
    BY <1>1 DEF CommandStep, RegisterCA, DeactivateCA, SignCertificate, CopyCAFiles,
       SetCurrentCA, CreateKey, CreateSimulatorKey, FlashCertificate, WriteSimulatorFile,
       DeleteCA, SigningFails, CommandFails, CommandEnds
  <2> QED
    BY <2>1
<1>2. ASSUME NEW d \in Devices, RegisterCertificate(d) PROVE HandlerIsConsistent'
  BY <1>2 DEF RegisterCertificate
<1>3. ASSUME NEW c \in Certs, Provision(c) PROVE HandlerIsConsistent'
  BY <1>3 DEF Provision
<1>4. CASE StackStep
  BY <1>4 DEF StackStep, CreateStack, DeleteStack
<1>5. CASE CreateGroup \/ AttachPolicy \/ ListExisting
  BY <1>5 DEF CreateGroup, AttachPolicy, ListExisting
<1>6. CASE ListPage
  <2>1. \A d \in Devices : page[d] = "done"
    BY <1>6 DEF ListPage
  <2>2. \A c \in Certs : purging[c] = "done"
    BY <2>1, CertIsRecord
  <2> QED
    BY <1>6, <2>2 DEF ListPage
<1>7. CASE NextPage \/ ReportDeleted
  BY <1>7 DEF NextPage, ReportDeleted
<1>8. ASSUME NEW d \in Devices, ListPrincipals(d) PROVE HandlerIsConsistent'
  <2>1. \A c \in Certs : c \in CertsOf(d) <=> c.device = d
    BY DEF CertsOf
  <2> QED
    BY <1>8, <2>1, CertIsRecord DEF ListPrincipals
<1>9. ASSUME NEW d \in Devices, DeleteThing(d) PROVE HandlerIsConsistent'
  <2>1. \A c \in Certs : c.device = d => purging[c] = "done" /\ c \notin attached
    BY <1>9 DEF DeleteThing, PrincipalsPurged, HasPrincipals, CertsOf
  <2> QED
    BY <1>9, <2>1, CertIsRecord DEF DeleteThing
<1>10. ASSUME NEW c \in Certs, Detach(c) \/ Deactivate(c) \/ DeleteCertificate(c)
       PROVE  HandlerIsConsistent'
  BY <1>10, CertIsRecord DEF Detach, Deactivate, DeleteCertificate
<1>11. CASE HandlerRejected \/ HandlerFails
  BY <1>11 DEF HandlerRejected, HandlerFails, HandlerEnds
<1>12. CASE UNCHANGED vars
  BY <1>12 DEF vars
<1> QED
  BY <1>1, <1>2, <1>3, <1>4, <1>5, <1>6, <1>7, <1>8, <1>9, <1>10, <1>11, <1>12
     DEF Next, DeviceStep, HandlerStep

\* Once nobody can be provisioned, no step changes that but a registration.
LEMMA FenceIsKept ==
  ASSUME DeviceInvariant, [Next]_vars, fenced'
  PROVE  ~CanProvision'
<1> USE DEF DeviceInvariant, TypeOK, FenceHolds, CanProvision, registryVars, fileVars,
            stackVars
<1>1. CASE CommandStep
  BY <1>1 DEF CommandStep, RegisterCA, DeactivateCA, SignCertificate, CopyCAFiles,
     SetCurrentCA, CreateKey, CreateSimulatorKey, FlashCertificate, WriteSimulatorFile,
     DeleteCA, SigningFails, CommandFails, CommandEnds
<1>2. ASSUME NEW d \in Devices, RegisterCertificate(d) PROVE FALSE
  BY <1>2, CertIsRecord DEF RegisterCertificate, HasCertificate, CAActive
<1>3. ASSUME NEW c \in Certs, Provision(c) PROVE FALSE
  BY <1>3 DEF Provision
<1>4. CASE HandlerStep \/ HandlerFails
  <2>1. fenced' = fenced
    BY <1>4 DEF HandlerStep, CreateGroup, AttachPolicy, ListExisting, ListPage, NextPage,
       ReportDeleted, HandlerRejected, HandlerFails, HandlerEnds, ListPrincipals, DeleteThing,
       Detach, Deactivate, DeleteCertificate
  <2>2. UNCHANGED caStatus
    BY <1>4, StackSteps
  <2>3. \A c \in Certs : certStatus'[c] = "pending" => certStatus[c] = "pending"
    BY <1>4, StackSteps
  <2> QED
    BY <2>1, <2>2, <2>3
<1>5. CASE CreateStack \/ UNCHANGED vars
  BY <1>5 DEF CreateStack, vars
<1>6. CASE DeleteStack
  BY <1>6 DEF DeleteStack
<1> QED
  BY <1>1, <1>2, <1>3, <1>4, <1>5, <1>6 DEF Next, DeviceStep, StackStep

\* Behind the fence a thing that was listed is not forgotten, and the last page
\* is the last one.
LEMMA NextFenceHolds ==
  ASSUME DeviceInvariant, [Next]_vars
  PROVE  FenceHolds'
<1> SUFFICES ASSUME fenced'
             PROVE  /\ \A d \in (things \cap listed)' : page'[d] # "done"
                    /\ handler' = "purgeLastPage" => things' \subseteq listed'
  BY FenceIsKept DEF FenceHolds
<1> USE DEF DeviceInvariant, TypeOK, HandlerIsConsistent, FenceHolds, PageDone, handlerVars,
            registryVars, stackVars
<1>1. CASE CommandStep
  <2>1. CASE \E c \in CAs : RegisterCA(c)
    BY <2>1 DEF RegisterCA
  <2>2. CASE ~\E c \in CAs : RegisterCA(c)
    <3>1. UNCHANGED <<handlerVars, things, fenced>>
      BY <1>1, <2>2 DEF CommandStep, DeactivateCA, SignCertificate, CopyCAFiles,
         SetCurrentCA, CreateKey, CreateSimulatorKey, FlashCertificate, WriteSimulatorFile,
         DeleteCA, SigningFails, CommandFails, CommandEnds
    <3> QED
      BY <3>1
  <2> QED
    BY <2>1, <2>2
<1>2. CASE DeviceStep
  <2>1. ~\E c \in Certs : Provision(c)
    BY DEF Provision, CanProvision
  <2>2. PICK d \in Devices : RegisterCertificate(d)
    BY <1>2, <2>1 DEF DeviceStep
  <2>3. UNCHANGED <<handlerVars, things, fenced>>
    BY <2>2 DEF RegisterCertificate
  <2> QED
    BY <2>3
<1>3. CASE StackStep
  BY <1>3 DEF StackStep, CreateStack, DeleteStack
<1>4. CASE CreateGroup \/ AttachPolicy \/ ListExisting
  BY <1>4 DEF CreateGroup, AttachPolicy, ListExisting
<1>5. CASE ListPage
  <2>1. things \cap listed = {} /\ UNCHANGED things
    BY <1>5 DEF ListPage
  <2>2. PICK next \in SUBSET (things \ listed) :
          /\ listed' = listed \cup next
          /\ page' = [d \in Devices |-> IF d \in next THEN "listPrincipals" ELSE "done"]
          /\ handler' = IF (things \ listed) \ next # {} THEN "purgePage" ELSE "purgeLastPage"
    BY <1>5 DEF ListPage
  <2>3. handler' = "purgeLastPage" => things \subseteq listed \cup next
    BY <2>2
  <2> QED
    BY <2>1, <2>2, <2>3
<1>6. CASE NextPage \/ ReportDeleted
  BY <1>6 DEF NextPage, ReportDeleted
<1>7. ASSUME NEW d \in Devices, ListPrincipals(d) \/ DeleteThing(d)
      PROVE  /\ \A e \in (things \cap listed)' : page'[e] # "done"
             /\ handler' = "purgeLastPage" => things' \subseteq listed'
  <2>1. CASE ListPrincipals(d)
    BY <2>1 DEF ListPrincipals
  <2>2. CASE DeleteThing(d)
    BY <2>2 DEF DeleteThing
  <2> QED
    BY <1>7, <2>1, <2>2
<1>8. CASE \E c \in Certs : Detach(c) \/ Deactivate(c) \/ DeleteCertificate(c)
  BY <1>8 DEF Detach, Deactivate, DeleteCertificate
<1>9. CASE HandlerRejected \/ HandlerFails
  BY <1>9 DEF HandlerRejected, HandlerFails, HandlerEnds
<1>10. CASE UNCHANGED vars
  BY <1>10 DEF vars
<1> QED
  BY <1>1, <1>2, <1>3, <1>4, <1>5, <1>6, <1>7, <1>8, <1>9, <1>10 DEF Next, HandlerStep

-----------------------------------------------------------------------------
(* Theorems                                                                *)

\* Before the first command no file, certificate or device exists.
LEMMA InitInvariant == Init => DeviceInvariant
<1> SUFFICES ASSUME Init PROVE DeviceInvariant
  OBVIOUS
<1>1. TypeOK
  BY InitTypeOK
<1>2. CertificatesHaveCAs /\ CommandIsConsistent /\ KeysAreBacked
  BY DEF Init, CertificatesHaveCAs, CommandIsConsistent, KeysAreBacked
<1>3. HandlerIsConsistent /\ FenceHolds
  BY DEF Init, HandlerIsConsistent, FenceHolds, PageDone
<1> QED
  BY <1>1, <1>2, <1>3 DEF DeviceInvariant

\* Every step of a command or a device keeps the invariant.
LEMMA NextInvariant == DeviceInvariant /\ [Next]_vars => DeviceInvariant'
<1> SUFFICES ASSUME DeviceInvariant, [Next]_vars PROVE DeviceInvariant'
  OBVIOUS
<1>1. TypeOK'
  BY NextTypeOK, StackStepTypeOK DEF DeviceInvariant
<1> QED
  BY <1>1, NextCertificatesHaveCAs, NextCommandIsConsistent, NextKeysAreBacked,
     NextHandlerIsConsistent, NextFenceHolds DEF DeviceInvariant

(***************************************************************************)
(* What is known of the files, of the running command, of AWS IoT and of   *)
(* the Lambda agrees at any time, for any number of devices, certificate   *)
(* authorities, keys, pages and failures.                                  *)
(***************************************************************************)
THEOREM DeviceInvariantHolds == Spec => []DeviceInvariant
BY InitInvariant, NextInvariant, PTL DEF Spec

(***************************************************************************)
(* A device has the certificate of its key, unless a command is at work on *)
(* it or ended early: no key of a simulator is ever lost, since the file   *)
(* it reads is written in the end.                                         *)
(***************************************************************************)
THEOREM KeysMatchCertificates == Spec => []KeyMatchesCertificate
<1>1. DeviceInvariant => KeyMatchesCertificate
  BY DEF DeviceInvariant, KeysAreBacked, KeyMatchesCertificate
<1> QED
  BY <1>1, DeviceInvariantHolds, PTL

\* A certificate is detached in the step before it is deactivated, and only a
\* failure of the deletion comes between.
LEMMA NextNoCertificateLeftBehind ==
  ASSUME DeviceInvariant, NoCertificateLeftBehind, [Next]_vars
  PROVE  NoCertificateLeftBehind'
<1> USE DEF DeviceInvariant, TypeOK, HandlerIsConsistent, NoCertificateLeftBehind, PageDone,
            handlerVars, registryVars, stackVars
<1>1. CASE CommandStep
  <2>1. UNCHANGED <<purging, registryVars, interrupted>>
    BY <1>1 DEF CommandStep, RegisterCA, DeactivateCA, SignCertificate, CopyCAFiles,
       SetCurrentCA, CreateKey, CreateSimulatorKey, FlashCertificate, WriteSimulatorFile,
       DeleteCA, SigningFails, CommandFails, CommandEnds
  <2> QED
    BY <2>1
<1>2. CASE DeviceStep
  BY <1>2 DEF DeviceStep, RegisterCertificate, Provision
<1>3. CASE StackStep \/ UNCHANGED vars
  BY <1>3 DEF StackStep, CreateStack, DeleteStack, vars
<1>4. CASE \/ CreateGroup \/ AttachPolicy \/ ListExisting \/ ListPage \/ NextPage
           \/ ReportDeleted \/ \E d \in Devices : DeleteThing(d)
  <2>1. UNCHANGED <<purging, certStatus, attached, interrupted>>
    BY <1>4 DEF CreateGroup, AttachPolicy, ListExisting, ListPage, NextPage, ReportDeleted,
       DeleteThing
  <2> QED
    BY <2>1
<1>5. ASSUME NEW d \in Devices, ListPrincipals(d) PROVE NoCertificateLeftBehind'
  BY <1>5 DEF ListPrincipals, CertsOf
<1>6. ASSUME NEW c \in Certs, Detach(c) \/ Deactivate(c) \/ DeleteCertificate(c)
      PROVE  NoCertificateLeftBehind'
  BY <1>6 DEF Detach, Deactivate, DeleteCertificate
<1>7. CASE HandlerRejected \/ HandlerFails
  <2>1. HandlerEnds
    BY <1>7 DEF HandlerRejected, HandlerFails
  <2>2. CASE stack = "deleting"
    BY <2>1, <2>2 DEF HandlerEnds
  <2>3. CASE stack # "deleting"
    <3>1. \A c \in Certs : purging[c] = "done"
      BY <2>3, CertIsRecord
    <3> QED
      BY <2>1, <3>1 DEF HandlerEnds
  <2> QED
    BY <2>2, <2>3
<1> QED
  BY <1>1, <1>2, <1>3, <1>4, <1>5, <1>6, <1>7 DEF Next, HandlerStep

(***************************************************************************)
(* While the Lambda has not failed, no certificate is left active without  *)
(* a thing, whatever is provisioned while the stack is deleted.            *)
(***************************************************************************)
THEOREM NoneLeftBehind == Spec => []NoCertificateLeftBehind
<1>1. Init => NoCertificateLeftBehind
  BY DEF Init, NoCertificateLeftBehind
<1>2. DeviceInvariant /\ NoCertificateLeftBehind /\ [Next]_vars => NoCertificateLeftBehind'
  BY NextNoCertificateLeftBehind
<1> QED
  BY <1>1, <1>2, DeviceInvariantHolds, PTL DEF Spec

\* The last page of things that cannot be provisioned again leaves none.
LEMMA NextDeletedForGood ==
  ASSUME DeviceInvariant, DeletedForGood, [Next]_vars
  PROVE  DeletedForGood'
<1> SUFFICES ASSUME stack' = "deleted", fenced' PROVE things' = {}
  BY DEF DeletedForGood
<1> USE DEF DeviceInvariant, TypeOK, HandlerIsConsistent, FenceHolds, DeletedForGood,
            PageDone, handlerVars, registryVars, stackVars
<1>1. CASE CommandStep
  BY <1>1 DEF CommandStep, RegisterCA, DeactivateCA, SignCertificate, CopyCAFiles,
     SetCurrentCA, CreateKey, CreateSimulatorKey, FlashCertificate, WriteSimulatorFile,
     DeleteCA, SigningFails, CommandFails, CommandEnds
<1>2. CASE DeviceStep
  BY <1>2 DEF DeviceStep, RegisterCertificate, Provision
<1>3. CASE StackStep \/ UNCHANGED vars
  BY <1>3 DEF StackStep, CreateStack, DeleteStack, vars
<1>4. CASE ReportDeleted
  BY <1>4 DEF ReportDeleted
<1>5. CASE \/ CreateGroup \/ AttachPolicy \/ ListExisting \/ ListPage \/ NextPage
           \/ \E d \in Devices : ListPrincipals(d) \/ DeleteThing(d)
           \/ \E c \in Certs : Detach(c) \/ Deactivate(c) \/ DeleteCertificate(c)
  BY <1>5 DEF CreateGroup, AttachPolicy, ListExisting, ListPage, NextPage, ListPrincipals,
     DeleteThing, Detach, Deactivate, DeleteCertificate
<1>6. CASE HandlerRejected \/ HandlerFails
  BY <1>6 DEF HandlerRejected, HandlerFails, HandlerEnds
<1> QED
  BY <1>1, <1>2, <1>3, <1>4, <1>5, <1>6 DEF Next, HandlerStep

(***************************************************************************)
(* If all CAs were purged, and nothing was left to provision, when the     *)
(* deletion began, the deleted stack leaves no thing behind, whatever has  *)
(* failed in deletions before.                                             *)
(***************************************************************************)
THEOREM NoThingSurvives == Spec => []DeletedForGood
<1>1. Init => DeletedForGood
  BY DEF Init, DeletedForGood
<1>2. DeviceInvariant /\ DeletedForGood /\ [Next]_vars => DeletedForGood'
  BY NextDeletedForGood
<1> QED
  BY <1>1, <1>2, DeviceInvariantHolds, PTL DEF Spec

-----------------------------------------------------------------------------
(* Who may connect                                                         *)

\* Steps of commands and devices take nothing from a device that may connect,
\* unless they are about the device.
LEMMA CommandKeepsConnection ==
  ASSUME DeviceInvariant, CommandStep \/ DeviceStep, NEW d \in Devices, MayConnect(d),
         subject # d, subject' # d
  PROVE  MayConnect(d)'
<1> USE DEF DeviceInvariant, TypeOK, CommandIsConsistent, MayConnect, HasCertificate,
            registryVars, groupVars, deviceVars
<1>1. CASE CommandStep
  <2>1. UNCHANGED <<registryVars, policy>>
    BY <1>1 DEF CommandStep, RegisterCA, DeactivateCA, SignCertificate, CopyCAFiles,
       SetCurrentCA, CreateKey, CreateSimulatorKey, FlashCertificate, WriteSimulatorFile,
       DeleteCA, SigningFails, CommandFails, CommandEnds
  <2>2. key'[d] = key[d] /\ cert'[d] = cert[d]
    BY <1>1 DEF CommandStep, RegisterCA, DeactivateCA, SignCertificate, CopyCAFiles,
       SetCurrentCA, CreateKey, CreateSimulatorKey, FlashCertificate, WriteSimulatorFile,
       DeleteCA, SigningFails, CommandFails, CommandEnds
  <2> QED
    BY <2>1, <2>2
<1>2. ASSUME NEW e \in Devices, RegisterCertificate(e) PROVE MayConnect(d)'
  BY <1>2 DEF RegisterCertificate
<1>3. ASSUME NEW c \in Certs, Provision(c) PROVE MayConnect(d)'
  BY <1>3 DEF Provision
<1> QED
  BY <1>1, <1>2, <1>3 DEF DeviceStep

\* Neither does the Lambda, nor the stack, unless the stack is being deleted.
LEMMA HandlerKeepsConnection ==
  ASSUME DeviceInvariant, HandlerStep \/ HandlerFails \/ StackStep \/ UNCHANGED vars,
         NEW d \in Devices, MayConnect(d), stack # "deleting"
  PROVE  MayConnect(d)'
<1> USE DEF DeviceInvariant, TypeOK, HandlerIsConsistent, PageDone, MayConnect,
            HasCertificate, registryVars, groupVars, deviceVars
<1>1. \A e \in Devices : page[e] = "done"
  OBVIOUS
<1>2. \A c \in Certs : purging[c] = "done"
  BY <1>1, CertIsRecord
<1>3. ~\E e \in Devices : ListPrincipals(e) \/ DeleteThing(e)
  BY <1>1 DEF ListPrincipals, DeleteThing
<1>4. ~\E c \in Certs : Detach(c) \/ Deactivate(c) \/ DeleteCertificate(c)
  BY <1>2 DEF Detach, Deactivate, DeleteCertificate
<1>5. UNCHANGED <<registryVars, deviceVars>> /\ (policy => policy')
  BY <1>3, <1>4 DEF HandlerStep, CreateGroup, AttachPolicy, ListExisting, ListPage, NextPage,
     ReportDeleted, HandlerRejected, HandlerEnds, HandlerFails, StackStep, CreateStack,
     DeleteStack, vars
<1> QED
  BY <1>5

(***************************************************************************)
(* Purging the certificate authorities, failing commands and the commands  *)
(* for other devices disconnect nobody: a device that may connect stays so *)
(* until a command works on it, or the stack is being deleted.             *)
(***************************************************************************)
THEOREM ConnectionsAreKept == Spec => ConnectionIsKept
<1>1. ASSUME DeviceInvariant, [Next]_vars, NEW d \in Devices, MayConnect(d), ~MayConnect(d)'
      PROVE  subject = d \/ subject' = d \/ stack = "deleting"
  BY <1>1, CommandKeepsConnection, HandlerKeepsConnection DEF Next
<1>2. DeviceInvariant /\ [Next]_vars =>
        [\A d \in Devices : MayConnect(d) /\ ~MayConnect(d)' =>
           subject = d \/ subject' = d \/ stack = "deleting"]_vars
  BY <1>1
<1> QED
  BY <1>2, DeviceInvariantHolds, PTL DEF Spec, ConnectionIsKept

\* Before the first deletion every certificate that was provisioned is active
\* and attached, and the group is complete before the stack is.
LEMMA NextIntactUntilDeletion ==
  ASSUME DeviceInvariant, IntactUntilDeletion, [Next]_vars
  PROVE  IntactUntilDeletion'
<1> USE DEF DeviceInvariant, TypeOK, HandlerIsConsistent, IntactUntilDeletion, PageDone,
            handlerVars, registryVars, groupVars, stackVars
<1>1. CASE CommandStep
  <2>1. UNCHANGED <<handler, registryVars, groupVars, stack>>
    BY <1>1 DEF CommandStep, RegisterCA, DeactivateCA, SignCertificate, CopyCAFiles,
       SetCurrentCA, CreateKey, CreateSimulatorKey, FlashCertificate, WriteSimulatorFile,
       DeleteCA, SigningFails, CommandFails, CommandEnds
  <2> QED
    BY <2>1
<1>2. ASSUME NEW d \in Devices, RegisterCertificate(d) PROVE IntactUntilDeletion'
  BY <1>2 DEF RegisterCertificate
<1>3. ASSUME NEW c \in Certs, Provision(c) PROVE IntactUntilDeletion'
  BY <1>3 DEF Provision
<1>4. CASE StackStep \/ UNCHANGED vars
  BY <1>4 DEF StackStep, CreateStack, DeleteStack, vars
<1>5. CASE CreateGroup \/ AttachPolicy \/ ListExisting \/ ListPage \/ NextPage \/ ReportDeleted
  BY <1>5 DEF CreateGroup, AttachPolicy, ListExisting, ListPage, NextPage, ReportDeleted
<1>6. ASSUME NEW d \in Devices, ListPrincipals(d) \/ DeleteThing(d)
      PROVE  IntactUntilDeletion'
  BY <1>6 DEF ListPrincipals, DeleteThing
<1>7. ASSUME NEW c \in Certs, Detach(c) \/ Deactivate(c) \/ DeleteCertificate(c)
      PROVE  IntactUntilDeletion'
  <2>1. page[c.device] # "done"
    BY <1>7, CertIsRecord DEF Detach, Deactivate, DeleteCertificate
  <2>2. stack = "deleting"
    BY <2>1, CertIsRecord
  <2> QED
    BY <1>7, <2>2 DEF Detach, Deactivate, DeleteCertificate
<1>8. CASE HandlerRejected \/ HandlerFails
  BY <1>8 DEF HandlerRejected, HandlerFails, HandlerEnds
<1> QED
  BY <1>1, <1>2, <1>3, <1>4, <1>5, <1>6, <1>7, <1>8 DEF Next, DeviceStep, HandlerStep

(***************************************************************************)
(* Until the stack is deleted no failure and no other command leads a      *)
(* device into a dead end: one that has a certificate of an active CA may  *)
(* connect, or is one or two connections away from it.  What remains of    *)
(* EveryDeviceConnects is that these connections happen.                   *)
(***************************************************************************)
THEOREM NoDeadEnd == Spec => []ProvisioningGoesOn
<1>1. Init => IntactUntilDeletion
  BY DEF Init, IntactUntilDeletion
<1>2. DeviceInvariant /\ IntactUntilDeletion /\ [Next]_vars => IntactUntilDeletion'
  BY NextIntactUntilDeletion
<1>3. DeviceInvariant /\ IntactUntilDeletion => ProvisioningGoesOn
  <2> SUFFICES ASSUME DeviceInvariant, IntactUntilDeletion, NEW d \in Devices, Provisionable(d)
               PROVE  \/ MayConnect(d)
                      \/ certStatus[cert[d]] = "unknown"
                      \/ certStatus[cert[d]] = "pending" /\ group
    BY DEF ProvisioningGoesOn
  <2>1. cert[d] \in Certs /\ cert[d].device = d /\ stack = "complete" /\ group /\ policy
    BY DEF Provisionable, HasCertificate, DeviceInvariant, TypeOK, CertificatesHaveCAs,
       IntactUntilDeletion
  <2>2. certStatus[cert[d]] \in {"unknown", "pending", "active"}
    BY <2>1 DEF IntactUntilDeletion, DeviceInvariant, TypeOK, CertStatuses
  <2>3. ASSUME certStatus[cert[d]] = "active" PROVE MayConnect(d)
    BY <2>1, <2>3 DEF IntactUntilDeletion, MayConnect, Provisionable, DeviceInvariant,
       HandlerIsConsistent
  <2> QED
    BY <2>1, <2>2, <2>3
<1> QED
  BY <1>1, <1>2, <1>3, DeviceInvariantHolds, PTL DEF Spec
=============================================================================
