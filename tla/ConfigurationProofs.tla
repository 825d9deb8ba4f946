------------------------- MODULE ConfigurationProofs -------------------------
(***************************************************************************)
(* What holds of the pages that configure the recorder, for any devices,   *)
(* cameras, users and numbers of requests: what is found, entered, shown   *)
(* and hosted is of the device that it is meant for, and what the server   *)
(* is given is what was entered.  One part moves at a time, so the         *)
(* inductive invariants of the parts are kept together.                    *)
(***************************************************************************)
EXTENDS MCConfiguration, SequenceTheorems, FiniteSetTheorems, TLAPS

-----------------------------------------------------------------------------
(* Lemmas about sequences. *)

(* What RemoveAt leaves, at every index. *)
LEMMA RemoveAtAt ==
  ASSUME NEW S, NEW s \in Seq(S), NEW i \in DOMAIN s
  PROVE  /\ RemoveAt(s, i) \in Seq(S)
         /\ Len(s) \in Nat \ {0} /\ DOMAIN s = 1 .. Len(s)
         /\ Len(RemoveAt(s, i)) = Len(s) - 1
         /\ DOMAIN RemoveAt(s, i) = 1 .. Len(s) - 1
         /\ \A j \in 1 .. Len(s) - 1 :
              RemoveAt(s, i)[j] = IF j < i THEN s[j] ELSE s[j + 1]
<1>. DEFINE a == SubSeq(s, 1, i - 1)
            b == SubSeq(s, i + 1, Len(s))
<1>1. /\ Len(s) \in Nat \ {0} /\ DOMAIN s = 1 .. Len(s) /\ i \in 1 .. Len(s)
      /\ \A j \in 1 .. Len(s) : s[j] \in S
  BY LenProperties
<1>2. /\ a \in Seq(S) /\ Len(a) = i - 1
      /\ \A j \in 1 .. i - 1 : a[j] = s[j]
  <2>1. \A j \in 1 .. i - 1 : s[j] \in S
    BY <1>1
  <2>2. 1 \in Int /\ i - 1 \in Int
    BY <1>1
  <2>3. /\ a \in Seq(S) /\ Len(a) = IF 1 <= i - 1 THEN (i - 1) - 1 + 1 ELSE 0
        /\ \A j \in 1 .. (i - 1) - 1 + 1 : a[j] = s[1 + j - 1]
    BY <2>1, <2>2, SubSeqProperties
  <2>. QED  BY <1>1, <2>3
<1>3. /\ b \in Seq(S) /\ Len(b) = Len(s) - i
      /\ \A j \in 1 .. Len(s) - i : b[j] = s[i + j]
  <2>1. \A j \in i + 1 .. Len(s) : s[j] \in S
    BY <1>1
  <2>2. i + 1 \in Int /\ Len(s) \in Int
    BY <1>1
  <2>3. /\ b \in Seq(S) /\ Len(b) = IF i + 1 <= Len(s) THEN Len(s) - (i + 1) + 1 ELSE 0
        /\ \A j \in 1 .. Len(s) - (i + 1) + 1 : b[j] = s[(i + 1) + j - 1]
    BY <2>1, <2>2, SubSeqProperties
  <2>. QED  BY <1>1, <2>3
<1>4. RemoveAt(s, i) = a \o b
  BY DEF RemoveAt
<1>. HIDE DEF a, b
<1>5. /\ a \o b \in Seq(S) /\ Len(a \o b) = Len(s) - 1
      /\ \A j \in 1 .. Len(s) - 1 :
           (a \o b)[j] = IF j <= i - 1 THEN a[j] ELSE b[j - (i - 1)]
  <2>1. Len(a) + Len(b) = Len(s) - 1
    BY <1>1, <1>2, <1>3
  <2>2. /\ a \o b \in Seq(S) /\ Len(a \o b) = Len(a) + Len(b)
        /\ \A j \in 1 .. Len(a) + Len(b) :
             (a \o b)[j] = IF j <= Len(a) THEN a[j] ELSE b[j - Len(a)]
    BY <1>2, <1>3, ConcatProperties
  <2>. QED  BY <1>2, <2>1, <2>2
<1>6. \A j \in 1 .. Len(s) - 1 : (a \o b)[j] = IF j < i THEN s[j] ELSE s[j + 1]
  <2>. TAKE j \in 1 .. Len(s) - 1
  <2>1. CASE j < i
    BY <1>1, <1>2, <1>5, <2>1
  <2>2. CASE ~(j < i)
    <3>1. j - (i - 1) \in 1 .. Len(s) - i /\ i + (j - (i - 1)) = j + 1
      BY <1>1, <2>2
    <3>2. b[j - (i - 1)] = s[j + 1]
      BY <1>3, <3>1
    <3>. QED  BY <1>1, <1>5, <2>2, <3>2
  <2>. QED  BY <2>1, <2>2
<1>. QED  BY <1>1, <1>4, <1>5, <1>6, LenProperties

(* What Append does, at every index. *)
LEMMA AppendAt ==
  ASSUME NEW S, NEW s \in Seq(S), NEW e \in S
  PROVE  /\ Append(s, e) \in Seq(S)
         /\ Len(s) \in Nat /\ DOMAIN s = 1 .. Len(s)
         /\ Len(Append(s, e)) = Len(s) + 1
         /\ DOMAIN Append(s, e) = 1 .. Len(s) + 1
         /\ \A i \in 1 .. Len(s) : Append(s, e)[i] = s[i]
         /\ Append(s, e)[Len(s) + 1] = e
BY AppendProperties

-----------------------------------------------------------------------------
(* OnvifFailures: the devices of the table, and of the list of failures. *)

Entry == OnvifHosts \cup {OF!NoHost, OF!BadEntry}
Retry == [url : OnvifHosts, entered : Entry, live : BOOLEAN, current : BOOLEAN,
          listed : BOOLEAN]

(* What the table has of ds, and that what it has twice is excused. *)
In(ds) == {ds[i] : i \in DOMAIN ds}
Distinct(ds, ex) ==
  \A i, j \in DOMAIN ds : i # j /\ ds[i] = ds[j] => ds[i] \in ex

LEMMA AppendDevice ==
  ASSUME NEW ds \in Seq(OnvifHosts), NEW h \in OnvifHosts, NEW ex, Distinct(ds, ex),
         h \in In(ds) => h \in ex
  PROVE  /\ Append(ds, h) \in Seq(OnvifHosts) /\ Append(ds, h) # ds
         /\ In(Append(ds, h)) = In(ds) \cup {h}
         /\ Distinct(Append(ds, h), ex)
<1>. DEFINE as == Append(ds, h)
<1>1. PICK n \in Nat :
        /\ DOMAIN ds = 1 .. n /\ DOMAIN as = 1 .. n + 1
        /\ \A i \in 1 .. n : as[i] = ds[i]
        /\ as[n + 1] = h
  BY AppendAt
<1>2. as \in Seq(OnvifHosts)
  BY AppendAt
<1>. HIDE DEF as
<1>3. /\ \A i \in DOMAIN as : i \in DOMAIN ds \/ i = n + 1
      /\ \A i \in DOMAIN ds : i \in DOMAIN as /\ as[i] = ds[i]
      /\ n + 1 \in DOMAIN as /\ n + 1 \notin DOMAIN ds
  <2>1. n + 1 \in 1 .. n + 1 /\ n + 1 \notin 1 .. n
    OBVIOUS
  <2>2. \A i \in 1 .. n : i \in 1 .. n + 1
    OBVIOUS
  <2>3. \A i \in 1 .. n + 1 : i \in 1 .. n \/ i = n + 1
    OBVIOUS
  <2>. QED  BY <1>1, <2>1, <2>2, <2>3, Zenon
<1>4. In(as) = In(ds) \cup {h}
  <2>1. \A x \in In(ds) : x \in In(as)
    BY <1>3 DEF In
  <2>2. h \in In(as)
    BY <1>1, <1>3 DEF In
  <2>3. \A x \in In(as) : x \in In(ds) \/ x = h
    BY <1>1, <1>3 DEF In
  <2>. QED  BY <2>1, <2>2, <2>3
<1>5. Distinct(as, ex)
  <2>. SUFFICES ASSUME NEW i \in DOMAIN as, NEW j \in DOMAIN as, i # j, as[i] = as[j]
                PROVE  as[i] \in ex
    BY DEF Distinct
  <2>1. CASE i \in DOMAIN ds /\ j \in DOMAIN ds
    BY <1>3, <2>1 DEF Distinct
  <2>2. CASE i = n + 1 /\ j \in DOMAIN ds
    BY <1>1, <1>3, <2>2 DEF In
  <2>3. CASE j = n + 1 /\ i \in DOMAIN ds
    BY <1>1, <1>3, <2>3 DEF In
  <2>. QED  BY <1>1, <1>3, <2>1, <2>2, <2>3
<1>6. as # ds
  BY <1>3
<1>. QED  BY <1>2, <1>4, <1>5, <1>6 DEF as

LEMMA RemoveDevice ==
  ASSUME NEW ds \in Seq(OnvifHosts), NEW n \in DOMAIN ds, NEW ex, Distinct(ds, ex)
  PROVE  /\ RemoveAt(ds, n) \in Seq(OnvifHosts)
         /\ In(RemoveAt(ds, n)) \subseteq In(ds)
         /\ Distinct(RemoveAt(ds, n), ex)
<1>. DEFINE rs == RemoveAt(ds, n)
            From(j) == IF j < n THEN j ELSE j + 1
<1>1. /\ rs \in Seq(OnvifHosts) /\ Len(ds) \in Nat \ {0} /\ n \in 1 .. Len(ds)
      /\ DOMAIN ds = 1 .. Len(ds) /\ DOMAIN rs = 1 .. Len(ds) - 1
      /\ \A j \in 1 .. Len(ds) - 1 : rs[j] = IF j < n THEN ds[j] ELSE ds[j + 1]
  BY RemoveAtAt
<1>. HIDE DEF rs
<1>2. /\ \A j \in DOMAIN rs : From(j) \in DOMAIN ds /\ rs[j] = ds[From(j)]
      /\ \A i, j \in DOMAIN rs : i # j => From(i) # From(j)
  BY <1>1
<1>. HIDE DEF From
<1>3. In(rs) \subseteq In(ds)
  BY <1>2 DEF In
<1>4. Distinct(rs, ex)
  BY <1>2 DEF Distinct
<1>. QED  BY <1>1, <1>3, <1>4 DEF rs

(* A discovery has no device twice. *)
LEMMA FoundDevices ==
  ASSUME NEW ds \in OF!Found2
  PROVE  ds \in Seq(OnvifHosts) /\ \A ex : Distinct(ds, ex)
<1>1. PICK n \in 0 .. 2 : ds \in [1 .. n -> OnvifHosts]
  BY DEF OF!Found2
<1>2. \A i, j \in DOMAIN ds : i < j => ds[i] < ds[j]
  BY DEF OF!Found2
<1>3. \A i, j \in DOMAIN ds : i # j => ds[i] # ds[j]
  <2>. TAKE i \in DOMAIN ds, j \in DOMAIN ds
  <2>. HAVE i # j
  <2>1. ds[i] \in Nat /\ ds[j] \in Nat /\ i \in Nat /\ j \in Nat
    <3>1. n \in Nat /\ DOMAIN ds = 1 .. n
      BY <1>1
    <3>2. ds[i] \in OnvifHosts /\ ds[j] \in OnvifHosts
      BY <1>1
    <3>3. i \in Nat /\ j \in Nat
      BY <3>1
    <3>. QED  BY <3>2, <3>3, ConfigurationAssumption
  <2>. QED  BY <1>2, <2>1
<1>4. ds \in Seq(OnvifHosts)
  BY <1>1
<1>. QED  BY <1>3, <1>4 DEF Distinct

LEMMA FixedUpFacts ==
  ASSUME NEW rs \in SUBSET Retry
  PROVE  /\ OF!FixedUp(rs) \subseteq Retry
         /\ \A q \in OF!FixedUp(rs) :
              /\ q.live => q.current
              /\ \E r \in rs : q.url = r.url /\ q.listed = r.listed /\ q.live = r.live
BY DEF OF!FixedUp, Retry

LEMMA GoneFacts ==
  ASSUME NEW rs \in SUBSET Retry
  PROVE  /\ OF!Gone(rs) \subseteq Retry
         /\ \A q \in OF!Gone(rs) :
              ~q.live /\ \E r \in rs : q.url = r.url /\ q.listed = r.listed
BY DEF OF!Gone, Retry

(* The module's cardinality is that of FiniteSets. *)
LEMMA SameCardinality == \A S : OF!Cardinality(S) = Cardinality(S)
BY DEF OF!Cardinality, Cardinality

LEMMA ListType ==
  ASSUME OF!TypeOK, OF!List, failed' \subseteq OnvifHosts
  PROVE  failControls' \in Seq(Entry)
<1>1. failControls \in Seq(Entry)
  BY DEF OF!TypeOK, Entry
<1>2. Cardinality(failed') \in Nat
  BY ConfigurationAssumption, FS_Subset, FS_CardinalityType
<1>3. OF!SetupTableFormControls(failed') \in Seq(Entry)
  <2>1. \A n \in Nat : [i \in 1 .. n |-> OF!NoHost] \in Seq(Entry)
    <3>. TAKE n \in Nat
    <3>. DEFINE f == [i \in 1 .. n |-> OF!NoHost]
    <3>1. OF!NoHost \in Entry
      BY DEF Entry
    <3>2. f \in [1 .. n -> Entry]
      BY <3>1
    <3>. HIDE DEF f
    <3>3. f \in Seq(Entry)
      BY <3>2
    <3>. QED  BY <3>3 DEF f
  <2>. QED  BY <1>2, <2>1, SameCardinality DEF OF!SetupTableFormControls
<1>4. << >> \in Seq(Entry)
  BY EmptySeq
<1>. QED  BY <1>1, <1>3, <1>4 DEF OF!List

(* What the module has of the community modules is what it is here. *)
LEMMA SameInFailures ==
  /\ \A s : OF!ToSet(s) = In(s)
  /\ \A s, i : OF!RemoveAt(s, i) = RemoveAt(s, i)
BY DEF OF!ToSet, In, OF!RemoveAt, RemoveAt

(* What is put into the table is excused if it was accepted before. *)
LEMMA SetDevicesFacts ==
  ASSUME OF!IInv, NEW ds \in Seq(OnvifHosts), OF!SetDevices(ds)
  PROVE  /\ devices' = ds
         /\ excused \subseteq excused' /\ excused' \subseteq OnvifHosts
         /\ adding # OF!NoHost => (adding \in In(ds) => adding \in excused')
         /\ addForm # << >> /\ ~addForm[1].error =>
              (addForm[1].url \in In(ds) => addForm[1].url \in excused')
<1>1. In(ds) \subseteq OnvifHosts
  BY ElementOfSeq DEF In
<1>2. excused' = excused \cup OF!Excused(In(ds) \ In(devices)) /\ devices' = ds
  BY SameInFailures DEF OF!SetDevices
<1>3. excused \subseteq OnvifHosts
  BY DEF OF!IInv, OF!TypeOK
<1>4. OF!Excused(In(ds) \ In(devices)) \subseteq OnvifHosts
  BY <1>1 DEF OF!Excused
<1>5. ASSUME adding # OF!NoHost, adding \in In(ds)
      PROVE  adding \in excused'
  BY <1>2, <1>5, SameInFailures DEF OF!Excused, OF!IInv, OF!OnlyNew, OF!New
<1>6. ASSUME addForm # << >>, ~addForm[1].error, addForm[1].url \in In(ds)
      PROVE  addForm[1].url \in excused'
  BY <1>2, <1>6, SameInFailures DEF OF!Excused, OF!IInv, OF!OnlyNew, OF!New
<1>. QED  BY <1>2, <1>3, <1>4, <1>5, <1>6

LEMMA FailuresInit ==
  ASSUME OF!Init
  PROVE  OF!IInv
<1>1. << >> \in Seq(OnvifHosts) /\ <<DefaultHost>> \in Seq(OnvifHosts)
  BY ConfigurationAssumption
<1>2. Distinct(<< >>, excused) /\ Distinct(<<DefaultHost>>, excused)
  BY DEF Distinct
<1>3. devices \in Seq(OnvifHosts) /\ Distinct(devices, excused)
  BY <1>1, <1>2 DEF OF!Init
<1>4. failControls \in Seq(OnvifHosts \cup {OF!NoHost, OF!BadEntry})
  BY EmptySeq DEF OF!Init
<1>5. discoveries \in 0 .. MaxDiscoveries
  BY ConfigurationAssumption DEF OF!Init
<1>6. OF!TypeOK
  BY <1>3, <1>4, <1>5 DEF OF!Init, OF!TypeOK
<1>7. OF!DevicesAreDistinct
  BY <1>3 DEF OF!DevicesAreDistinct, Distinct
<1>8. OF!OnlyNew /\ OF!ListIsCurrent
  BY DEF OF!Init, OF!OnlyNew, OF!ListIsCurrent
<1>. QED  BY <1>6, <1>7, <1>8 DEF OF!IInv

(* What the invariant says of the variables. *)
Table == devices \in Seq(OnvifHosts) /\ Distinct(devices, excused) /\ excused \subseteq OnvifHosts
Lists ==
  /\ failed \subseteq OnvifHosts /\ failControls \in Seq(Entry)
  /\ busy \in {"search", "save", "no"}
  /\ busy = "search" => failed = {} /\ adding = OF!NoHost /\ \A r \in retries : ~r.listed
Tries == retries \subseteq Retry /\ \A r \in retries : r.url \in excused /\ (r.live => r.current)
Dialogue ==
  /\ addForm \in
       {<< >>} \cup {<<f>> : f \in [url : OnvifHosts \cup {OF!BadEntry}, error : BOOLEAN]}
  /\ adding \in OnvifHosts \cup {OF!NoHost}
  /\ adding # OF!NoHost => (adding \in In(devices) => adding \in excused) /\ addForm = << >>
  /\ addForm # << >> =>
       addForm[1].error \/ /\ addForm[1].url # OF!BadEntry
                           /\ addForm[1].url \in In(devices) => addForm[1].url \in excused
Rest == restoring \in BOOLEAN /\ discoveries \in 0 .. MaxDiscoveries

LEMMA FailuresParts == OF!IInv <=> Table /\ Lists /\ Tries /\ Dialogue /\ Rest
<1>1. OF!DevicesAreDistinct <=> Distinct(devices, excused)
  BY DEF OF!DevicesAreDistinct, Distinct
<1>2. \A h : OF!New(h) <=> (h \in In(devices) => h \in excused)
  BY SameInFailures DEF OF!New
<1>. QED
  BY <1>1, <1>2, Zenon
  DEF OF!IInv, OF!TypeOK, OF!OnlyNew, OF!ListIsCurrent, Table, Lists, Tries, Dialogue, Rest,
      Entry, Retry

LEMMA FailuresPartsNext == OF!IInv' <=> Table' /\ Lists' /\ Tries' /\ Dialogue' /\ Rest'
BY FailuresParts, PTL

LEMMA FailuresStep ==
  ASSUME OF!IInv, OF!Next
  PROVE  OF!IInv'
<1>. SUFFICES Table' /\ Lists' /\ Tries' /\ Dialogue' /\ Rest'
  BY FailuresPartsNext
<1>. USE DEF In
<1>0. Table /\ Lists /\ Tries /\ Dialogue /\ Rest
  BY FailuresParts
<1>a. ASSUME OF!Request
      PROVE  discoveries' \in 0 .. MaxDiscoveries
  BY <1>0, <1>a, ConfigurationAssumption DEF OF!Request, Rest
<1>b. ASSUME OF!List, failed' \subseteq OnvifHosts
      PROVE  failControls' \in Seq(Entry)
  BY <1>b, ListType DEF OF!IInv
<1>1. CASE OF!EnterCredentials
  <2>0. PICK h \in OF!WithControls : \E entry \in {h, OF!BadEntry} :
          failControls' = [failControls EXCEPT ![OF!Row(h)] = entry]
    BY <1>1 DEF OF!EnterCredentials
  <2>1. PICK entry \in {h, OF!BadEntry} :
          failControls' = [failControls EXCEPT ![OF!Row(h)] = entry]
    BY <2>0
  <2>2. entry \in Entry
    BY <1>0 DEF OF!WithControls, Lists, Entry
  <2>3. failControls' \in Seq(Entry)
    BY <1>0, <2>1, <2>2, ExceptSeq DEF Lists, OF!WithControls
  <2>. QED  BY <1>0, <1>1, <2>3 DEF OF!EnterCredentials, Table, Lists, Tries, Dialogue, Rest
<1>2. CASE OF!Discover
  <2>1. PICK h \in OF!WithControls :
          /\ retries' = retries \cup
               {[url |-> h, entered |-> failControls[OF!Row(h)],
                 live |-> TRUE, current |-> TRUE, listed |-> TRUE]}
          /\ excused' = excused \cup {h}
    BY <1>2 DEF OF!Discover
  <2>2. h \in OnvifHosts /\ failControls[OF!Row(h)] \in Entry
    BY <1>0, ElementOfSeq DEF OF!WithControls, Lists
  <2>3. Tries'
    <3>. DEFINE new == [url |-> h, entered |-> failControls[OF!Row(h)],
                        live |-> TRUE, current |-> TRUE, listed |-> TRUE]
    <3>1. new \in Retry /\ new.url = h /\ new.current
      BY <2>2 DEF Retry
    <3>2. retries' = retries \cup {new}
      BY <2>1
    <3>. HIDE DEF new
    <3>. QED  BY <1>0, <2>1, <3>1, <3>2 DEF Tries
  <2>4. Table'
    BY <1>0, <1>2, <2>1, <2>2 DEF Table, OF!Discover, Distinct
  <2>5. Lists'
    BY <1>0, <1>2 DEF OF!Discover, OF!Listed, Lists
  <2>6. Dialogue'
    BY <1>0, <1>2, <2>1 DEF OF!Discover, Dialogue
  <2>. QED  BY <1>0, <1>2, <1>a, <2>3, <2>4, <2>5, <2>6 DEF OF!Discover, Rest
<1>4. CASE OF!ToggleAddDialogue
  <2>1. Dialogue'
    BY <1>0, <1>4, ConfigurationAssumption, SameInFailures
    DEF OF!ToggleAddDialogue, Dialogue, OF!FreshForm, OF!IsValidDeviceIP
  <2>. QED  BY <1>0, <1>4, <2>1 DEF OF!ToggleAddDialogue, Table, Lists, Tries, Rest
<1>5. CASE OF!TypeUrl
  <2>1. PICK url \in OnvifHosts \cup {OF!BadEntry} :
          addForm' = <<[url |-> url, error |-> ~OF!IsValidDeviceIP(url)]>>
    BY <1>5 DEF OF!TypeUrl
  <2>2. (~OF!IsValidDeviceIP(url)) \in BOOLEAN
    BY DEF OF!IsValidDeviceIP
  <2>3. /\ addForm' # << >> /\ addForm'[1].url = url
        /\ addForm'[1].error = ~OF!IsValidDeviceIP(url)
    BY <2>1
  <2>4. ~addForm'[1].error => url # OF!BadEntry /\ url \notin In(devices)
    BY <2>3, SameInFailures, Zenon DEF OF!IsValidDeviceIP, In
  <2>5. adding = OF!NoHost /\ UNCHANGED <<devices, excused, adding>>
    BY <1>0, <1>5 DEF OF!TypeUrl, Dialogue
  <2>6. addForm' \in
          {<<f>> : f \in [url : OnvifHosts \cup {OF!BadEntry}, error : BOOLEAN]}
    BY <2>1, <2>2
  <2>7. Dialogue'
    BY <1>0, <2>3, <2>4, <2>5, <2>6 DEF Dialogue
  <2>. QED  BY <1>0, <1>5, <2>7 DEF OF!TypeUrl, Table, Lists, Tries, Rest
<1>6. CASE OF!StartCapabilitiesDiscovery
  <2>1. Dialogue'
    BY <1>0, <1>6 DEF OF!StartCapabilitiesDiscovery, Dialogue
  <2>. QED
    BY <1>0, <1>6, <1>a, <2>1 DEF OF!StartCapabilitiesDiscovery, Table, Lists, Tries, Rest
<1>7. CASE OF!FindCameraDetailsDone
  <2>. DEFINE h == adding
              ds == Append(devices, h)
  <2>1. /\ h \in OnvifHosts /\ (h \in In(devices) => h \in excused) /\ addForm = << >>
        /\ busy # "search"
    BY <1>0, <1>7 DEF OF!FindCameraDetailsDone, Dialogue, Lists
  <2>2. ds \in Seq(OnvifHosts) /\ Distinct(ds, excused)
    BY <1>0, <2>1, AppendDevice DEF Table
  <2>3. Table'
    BY <1>0, <1>7, <2>2 DEF OF!FindCameraDetailsDone, Table
  <2>4. Tries'
    BY <1>0, <1>7, FixedUpFacts DEF OF!FindCameraDetailsDone, Tries
  <2>5. failed' \subseteq OnvifHosts
    BY <1>0, <1>7, <2>1 DEF OF!FindCameraDetailsDone, Lists
  <2>6. Lists'
    BY <1>0, <1>7, <1>b, <2>1, <2>5 DEF OF!FindCameraDetailsDone, Lists
  <2>7. Dialogue'
    BY <1>7, <2>1 DEF OF!FindCameraDetailsDone, Dialogue
  <2>. QED  BY <1>0, <1>7, <2>3, <2>4, <2>6, <2>7 DEF OF!FindCameraDetailsDone, Rest
<1>8. CASE OF!DeleteDevice
  <2>1. PICK i \in DOMAIN devices : devices' = RemoveAt(devices, i)
    BY <1>8, SameInFailures DEF OF!DeleteDevice
  <2>2. devices' \in Seq(OnvifHosts) /\ In(devices') \subseteq In(devices)
        /\ Distinct(devices', excused)
    BY <1>0, <2>1, RemoveDevice DEF Table
  <2>3. Tries'
    BY <1>0, <1>8, FixedUpFacts DEF OF!DeleteDevice, Tries
  <2>4. Table' /\ Rest'
    BY <1>0, <1>8, <2>2 DEF OF!DeleteDevice, Table, Rest
  <2>5. Lists'
    BY <1>0, <1>8 DEF OF!DeleteDevice, Lists
  <2>6. Dialogue'
    BY <1>0, <1>8, <2>2 DEF OF!DeleteDevice, Dialogue
  <2>. QED  BY <2>3, <2>4, <2>5, <2>6
<1>9. CASE OF!StartSearch
  <2>1. Tries' /\ \A r \in retries' : ~r.listed
    <3>. DEFINE gone == OF!Gone(retries)
    <3>1. /\ gone \subseteq Retry
          /\ \A q \in gone : ~q.live /\ \E r \in retries : q.url = r.url
      BY <1>0, GoneFacts DEF Tries
    <3>2. retries' = {[r EXCEPT !.listed = FALSE] : r \in gone}
      BY <1>9 DEF OF!StartSearch
    <3>. HIDE DEF gone
    <3>3. ASSUME NEW g \in gone
          PROVE  LET q == [g EXCEPT !.listed = FALSE] IN
                   q \in Retry /\ q.url = g.url /\ q.live = g.live /\ ~q.listed
      BY <3>1 DEF Retry
    <3>4. ASSUME NEW q \in retries'
          PROVE  /\ q \in Retry /\ ~q.live /\ ~q.listed
                 /\ \E r \in retries : q.url = r.url
      <4>1. PICK g \in gone : q = [g EXCEPT !.listed = FALSE]
        BY <3>2
      <4>2. q \in Retry /\ q.url = g.url /\ q.live = g.live /\ ~q.listed
        BY <3>3, <4>1
      <4>. QED  BY <3>1, <4>2
    <3>. QED  BY <1>0, <1>9, <3>4 DEF OF!StartSearch, Tries
  <2>2. Lists'
    BY <1>0, <1>9, <1>b, <2>1 DEF OF!StartSearch, Lists
  <2>. QED  BY <1>0, <1>9, <1>a, <2>1, <2>2 DEF OF!StartSearch, Table, Dialogue, Rest
<1>10. CASE OF!SearchDone
  <2>1. CASE \E ds \in OF!Found2 :
               /\ OF!SetDevices(ds) /\ retries' = OF!FixedUp(retries)
               /\ failed' \in SUBSET (OnvifHosts \ OF!ToSet(ds))
    <3>1. PICK ds \in OF!Found2 :
                 /\ OF!SetDevices(ds) /\ retries' = OF!FixedUp(retries)
                 /\ failed' \in SUBSET (OnvifHosts \ OF!ToSet(ds))
      BY <2>1
    <3>2. ds \in Seq(OnvifHosts) /\ Distinct(ds, excused')
      BY FoundDevices
    <3>3. Table'
      BY <3>1, <3>2, SetDevicesFacts DEF Table
    <3>4. Tries'
      BY <1>0, <3>1, <3>2, SetDevicesFacts, FixedUpFacts DEF Tries
    <3>5. Lists'
      BY <1>0, <1>10, <1>b, <3>1 DEF OF!SearchDone, Lists
    <3>6. Dialogue'
      BY <1>0, <1>10, <3>1, <3>2, SetDevicesFacts DEF OF!SearchDone, Dialogue
    <3>. QED  BY <1>0, <1>10, <3>3, <3>4, <3>5, <3>6 DEF OF!SearchDone, Rest
  <2>2. CASE UNCHANGED <<devices, failed, retries, excused>>
    <3>1. Lists'
      BY <1>0, <1>10, <1>b, <2>2 DEF OF!SearchDone, Lists
    <3>. QED
      BY <1>0, <1>10, <2>2, <3>1 DEF OF!SearchDone, Table, Tries, Dialogue, Rest
  <2>. QED  BY <1>10, <2>1, <2>2 DEF OF!SearchDone
<1>11. CASE OF!CommitStarted
  <2>1. Tries'
    <3>. DEFINE gone == OF!Gone(retries)
    <3>1. gone \subseteq Retry /\ \A q \in gone : \E r \in retries : q.url = r.url
      BY <1>0, GoneFacts DEF Tries
    <3>2. retries' = OF!FixedUp(gone)
      BY <1>11 DEF OF!CommitStarted
    <3>. HIDE DEF gone
    <3>. QED  BY <1>0, <1>11, <3>1, <3>2, FixedUpFacts DEF OF!CommitStarted, Tries
  <2>2. Dialogue'
    BY <1>0, <1>11, ConfigurationAssumption, SameInFailures
    DEF OF!CommitStarted, Dialogue, OF!FreshForm, OF!IsValidDeviceIP
  <2>3. Lists'
    BY <1>0, <1>11, <1>b DEF OF!CommitStarted, Lists
  <2>. QED  BY <1>0, <1>11, <1>a, <2>1, <2>2, <2>3 DEF OF!CommitStarted, Table, Rest
<1>12. CASE OF!CommitEnded
  <2>1. Lists'
    BY <1>0, <1>12, <1>b DEF OF!CommitEnded, Lists
  <2>. QED  BY <1>0, <1>12, <2>1 DEF OF!CommitEnded, Table, Tries, Dialogue, Rest
<1>13. CASE OF!Restore
  BY <1>0, <1>13, <1>a DEF OF!Restore, Table, Lists, Tries, Dialogue, Rest
<1>14. CASE OF!RestoreDone
  <2>1. PICK ds \in OF!Found2 : OF!SetDevices(ds)
    BY <1>14 DEF OF!RestoreDone
  <2>2. ds \in Seq(OnvifHosts) /\ Distinct(ds, excused')
    BY FoundDevices
  <2>3. Table'
    BY <2>1, <2>2, SetDevicesFacts DEF Table
  <2>4. Tries'
    BY <1>0, <1>14, <2>1, <2>2, SetDevicesFacts, FixedUpFacts DEF OF!RestoreDone, Tries
  <2>5. Lists'
    BY <1>0, <1>14, FixedUpFacts DEF OF!RestoreDone, Lists, Tries
  <2>6. Dialogue'
    BY <1>0, <1>14, <2>1, <2>2, SetDevicesFacts DEF OF!RestoreDone, Dialogue
  <2>. QED  BY <1>0, <1>14, <2>3, <2>4, <2>5, <2>6 DEF OF!RestoreDone, Rest
<1>3. CASE OF!DiscoverDone
  <2>1. PICK r \in retries :
          /\ OF!Found(r) \/ OF!NotFound(r) \/ OF!Failed
          /\ retries' = IF r.live /\ devices' # devices THEN OF!FixedUp(retries \ {r})
                        ELSE retries \ {r}
    BY <1>3 DEF OF!DiscoverDone
  <2>2. r \in Retry /\ r.url \in excused
    BY <1>0, <2>1 DEF Tries
  <2>. DEFINE ds == Append(devices, r.url)
  <2>3. ds \in Seq(OnvifHosts) /\ Distinct(ds, excused)
    BY <1>0, <2>2, AppendDevice DEF Table, Retry
  <2>4. \/ UNCHANGED <<devices, excused>>
        \/ OF!SetDevices(ds)
    BY <2>1 DEF OF!Found, OF!NotFound, OF!Failed
  <2>5. /\ Table' /\ excused \subseteq excused'
        /\ adding # OF!NoHost => (adding \in In(devices') => adding \in excused')
        /\ addForm # << >> /\ ~addForm[1].error =>
              (addForm[1].url \in In(devices') => addForm[1].url \in excused')
    <3>. HIDE DEF ds
    <3>1. CASE UNCHANGED <<devices, excused>>
      BY <1>0, <3>1 DEF Table, Dialogue
    <3>2. CASE OF!SetDevices(ds)
      <4>1. /\ devices' = ds
            /\ excused \subseteq excused' /\ excused' \subseteq OnvifHosts
            /\ adding # OF!NoHost => (adding \in In(ds) => adding \in excused')
            /\ addForm # << >> /\ ~addForm[1].error =>
                 (addForm[1].url \in In(ds) => addForm[1].url \in excused')
        BY <2>3, <3>2, SetDevicesFacts
      <4>. QED  BY <2>3, <4>1 DEF Table, Distinct
    <3>. QED  BY <2>4, <3>1, <3>2
  <2>6. Tries'
    BY <1>0, <2>1, <2>5, FixedUpFacts DEF Tries
  <2>7. failed' \subseteq OnvifHosts
    BY <1>0, <2>1, <2>2 DEF OF!Found, OF!NotFound, OF!Failed, Lists, Retry
  <2>8. Lists'
    <3>1. CASE busy = "search"
      <4>1. failed' = {}
        BY <1>0, <2>1, <3>1 DEF OF!Found, OF!NotFound, OF!Failed, Lists
      <4>2. \A q \in retries' : ~q.listed
        BY <1>0, <2>1, <3>1, FixedUpFacts DEF Lists, Tries
      <4>. QED  BY <1>0, <1>3, <1>b, <2>7, <4>1, <4>2 DEF OF!DiscoverDone, Lists
    <3>2. CASE busy # "search"
      BY <1>0, <1>3, <1>b, <2>7, <3>2 DEF OF!DiscoverDone, Lists
    <3>. QED  BY <3>1, <3>2
  <2>9. Dialogue'
    BY <1>0, <1>3, <2>5 DEF OF!DiscoverDone, Dialogue
  <2>. QED  BY <1>0, <1>3, <2>5, <2>6, <2>8, <2>9 DEF OF!DiscoverDone, Rest
<1>. QED
  BY <1>1, <1>2, <1>3, <1>4, <1>5, <1>6, <1>7, <1>8, <1>9, <1>10, <1>11, <1>12, <1>13, <1>14
  DEF OF!Next

(* A device leaves the list into the table, with the list, or by the answer to a list *)
(* that is no more.                                                                   *)
LEMMA FailuresLeave ==
  ASSUME OF!IInv, OF!Next \/ UNCHANGED ofVars
  PROVE  OF!LeavesListForTable
<1>0. Table /\ Lists /\ Tries
  BY FailuresParts
<1>1. CASE UNCHANGED failed
  BY <1>1 DEF OF!LeavesListForTable
<1>2. CASE OF!DiscoverDone
  <2>. SUFFICES ASSUME NEW h \in failed, h \notin failed'
                PROVE  \/ h \in In(devices')
                       \/ \E r \in retries \ retries' : ~r.live /\ r.url = h
    BY SameInFailures DEF OF!LeavesListForTable
  <2>1. PICK r \in retries :
          /\ OF!Found(r) \/ OF!NotFound(r) \/ OF!Failed
          /\ retries' = IF r.live /\ devices' # devices THEN OF!FixedUp(retries \ {r})
                        ELSE retries \ {r}
    BY <1>2 DEF OF!DiscoverDone
  <2>2. OF!Found(r) /\ h = r.url
    BY <2>1 DEF OF!Found, OF!NotFound, OF!Failed
  <2>3. r \in Retry /\ (r.live => r.current)
    BY <1>0, <2>1 DEF Tries
  <2>4. CASE r.current
    <3>1. devices' = Append(devices, r.url) /\ r.url \in OnvifHosts
      BY <2>2, <2>3, <2>4 DEF OF!Found, OF!SetDevices, Retry
    <3>2. PICK n \in Nat : n + 1 \in DOMAIN devices' /\ devices'[n + 1] = r.url
      <4>1. /\ Len(devices) \in Nat /\ DOMAIN devices' = 1 .. Len(devices) + 1
            /\ devices'[Len(devices) + 1] = r.url
        BY <1>0, <3>1, AppendAt DEF Table
      <4>. QED  BY <4>1
    <3>. QED  BY <2>2, <3>2 DEF In
  <2>5. CASE ~r.current
    BY <2>1, <2>2, <2>3, <2>5
  <2>. QED  BY <2>4, <2>5
<1>3. CASE OF!FindCameraDetailsDone
  BY <1>3 DEF OF!FindCameraDetailsDone, OF!LeavesListForTable
<1>4. CASE OF!StartSearch
  BY <1>4 DEF OF!StartSearch, OF!LeavesListForTable
<1>5. CASE OF!SearchDone
  BY <1>0, <1>5 DEF OF!SearchDone, OF!LeavesListForTable, Lists
<1>6. OF!Next \/ UNCHANGED ofVars =>
        UNCHANGED failed \/ OF!DiscoverDone \/ OF!FindCameraDetailsDone \/ OF!StartSearch
          \/ OF!SearchDone
  BY DEF OF!Next, ofVars, OF!EnterCredentials, OF!Discover, OF!ToggleAddDialogue, OF!TypeUrl,
         OF!StartCapabilitiesDiscovery, OF!DeleteDevice, OF!CommitStarted, OF!CommitEnded,
         OF!Restore, OF!RestoreDone
<1>. QED  BY <1>1, <1>2, <1>3, <1>4, <1>5, <1>6

-----------------------------------------------------------------------------
(* CameraCredentials: what a camera has was confirmed for it, and what its row shows. *)

Encryption == [row : Cameras, object : {0, 1}, cred : Passwords, shown : BOOLEAN]

(* What the invariant says of the variables. *)
Credentials ==
  /\ cred \in [Cameras -> Passwords \cup {CC!Unset}] /\ object \in [Cameras -> {0, 1}]
  /\ encrypting \subseteq Encryption /\ ccConfirmed \subseteq Cameras \X {0, 1} \X Passwords
  /\ CC!KeptForItsCamera /\ CC!EncryptsConfirmed
Snapshots ==
  /\ snapShotKey \in Cameras \cup {CC!NoRow} /\ snapshotLoading \in BOOLEAN
  /\ snapshot \in CC!Shot /\ asked \subseteq CC!Shot /\ crossing \in BOOLEAN /\ shots \in Nat
  /\ CC!WaitsForItsOwn
Others ==
  /\ publicKey \in {"asked", "known", "missing"}
  /\ dialogue \in Cameras \cup {CC!Onvif, CC!NoRow}
  /\ onvifSet \in BOOLEAN /\ haveOnvif \in BOOLEAN /\ onvifCalls \in Seq({"have", "set"})
  /\ taken \in Nat

LEMMA CredentialsParts == CC!IInv <=> Credentials /\ Snapshots /\ Others
BY Zenon DEF CC!IInv, CC!TypeOK, Credentials, Snapshots, Others, Encryption

LEMMA CredentialsPartsNext == CC!IInv' <=> Credentials' /\ Snapshots' /\ Others'
BY CredentialsParts, PTL

LEMMA CredentialsInit ==
  ASSUME CC!Init
  PROVE  CC!IInv
<1>1. CC!KeptForItsCamera /\ CC!EncryptsConfirmed /\ CC!WaitsForItsOwn
  BY ConfigurationAssumption
  DEF CC!Init, CC!KeptForItsCamera, CC!EncryptsConfirmed, CC!WaitsForItsOwn
<1>2. <<"have">> \in Seq({"have", "set"})
  OBVIOUS
<1>3. CC!NoShot \in CC!Shot
  BY DEF CC!NoShot, CC!Shot
<1>4. Credentials
  BY <1>1 DEF CC!Init, Credentials
<1>5. Snapshots
  BY <1>1, <1>3 DEF CC!Init, Snapshots
<1>6. Others
  BY <1>2 DEF CC!Init, Others
<1>. QED  BY <1>4, <1>5, <1>6, CredentialsParts

LEMMA GoneEncryptions ==
  ASSUME NEW es \in SUBSET Encryption
  PROVE  /\ CC!Gone(es) \subseteq Encryption
         /\ \A q \in CC!Gone(es) :
              \E e \in es : q.row = e.row /\ q.object = e.object /\ q.cred = e.cred
         /\ \A e \in es :
              \E q \in CC!Gone(es) : q.row = e.row /\ q.object = e.object /\ q.cred = e.cred
<1>. DEFINE Of(e) == [e EXCEPT !.shown = FALSE]
<1>1. \A e \in es : /\ Of(e) \in Encryption
                    /\ Of(e).row = e.row /\ Of(e).object = e.object /\ Of(e).cred = e.cred
  BY DEF Encryption
<1>2. CC!Gone(es) = {Of(e) : e \in es}
  BY DEF CC!Gone
<1>. HIDE DEF Of
<1>. QED  BY <1>1, <1>2

LEMMA CredentialsStep ==
  ASSUME CC!IInv, CC!Next
  PROVE  CC!IInv'
<1>. SUFFICES Credentials' /\ Snapshots' /\ Others'
  BY CredentialsPartsNext
<1>0. Credentials /\ Snapshots /\ Others
  BY CredentialsParts
<1>a. \A cs \in Seq({"have", "set"}) : \A i \in DOMAIN cs :
        CC!RemoveAt(cs, i) \in Seq({"have", "set"})
  <2>1. \A cs, i : CC!RemoveAt(cs, i) = RemoveAt(cs, i)
    BY DEF CC!RemoveAt, RemoveAt
  <2>. QED  BY <2>1, RemoveAtAt
<1>b. ASSUME UNCHANGED <<cred, object, encrypting, ccConfirmed>>
      PROVE  Credentials'
  BY <1>0, <1>b DEF Credentials, CC!KeptForItsCamera, CC!EncryptsConfirmed
<1>c. ASSUME UNCHANGED CC!snapshotVars
      PROVE  Snapshots'
  BY <1>0, <1>c DEF Snapshots, CC!snapshotVars, CC!WaitsForItsOwn
<1>d. ASSUME UNCHANGED <<cred, object, ccConfirmed>>, encrypting' = CC!Gone(encrypting)
      PROVE  Credentials'
  BY <1>0, <1>d, GoneEncryptions DEF Credentials, CC!KeptForItsCamera, CC!EncryptsConfirmed
<1>1. CASE CC!GotPublicKey
  BY <1>0, <1>1, <1>b, <1>c DEF CC!GotPublicKey, CC!onvifVars, Others
<1>2. CASE CC!Toggle
  BY <1>0, <1>2, <1>c, <1>d DEF CC!Toggle, CC!onvifVars, Others
<1>3. CASE CC!UpdateCredentials
  <2>1. CASE UNCHANGED <<encrypting, ccConfirmed>>
    BY <1>0, <1>3, <1>b, <1>c, <2>1 DEF CC!UpdateCredentials, CC!onvifVars, Others
  <2>2. CASE \E p \in Passwords :
               /\ encrypting' = encrypting \cup
                    {[row |-> dialogue, object |-> object[dialogue], cred |-> p, shown |-> TRUE]}
               /\ ccConfirmed' = ccConfirmed \cup {<<dialogue, object[dialogue], p>>}
    <3>1. PICK p \in Passwords :
               /\ encrypting' = encrypting \cup
                    {[row |-> dialogue, object |-> object[dialogue], cred |-> p, shown |-> TRUE]}
               /\ ccConfirmed' = ccConfirmed \cup {<<dialogue, object[dialogue], p>>}
      BY <2>2
    <3>. DEFINE new == [row |-> dialogue, object |-> object[dialogue], cred |-> p, shown |-> TRUE]
    <3>2. dialogue \in Cameras /\ object[dialogue] \in {0, 1} /\ UNCHANGED <<cred, object>>
      BY <1>0, <1>3 DEF CC!UpdateCredentials, Credentials
    <3>3. /\ new \in Encryption
          /\ new.row = dialogue /\ new.object = object[dialogue] /\ new.cred = p
      BY <3>2 DEF Encryption
    <3>4. encrypting' = encrypting \cup {new}
      BY <3>1
    <3>. HIDE DEF new
    <3>5. CC!EncryptsConfirmed'
      <4>1. \A e \in encrypting' : <<e.row, e.object, e.cred>> \in ccConfirmed'
        BY <1>0, <3>1, <3>3, <3>4 DEF Credentials, CC!EncryptsConfirmed
      <4>2. \A k \in ccConfirmed' : k[2] <= object[k[1]]
        BY <1>0, <3>1, <3>2 DEF Credentials, CC!EncryptsConfirmed
      <4>. QED  BY <3>2, <4>1, <4>2 DEF CC!EncryptsConfirmed
    <3>6. CC!KeptForItsCamera'
      BY <1>0, <3>1, <3>2, <3>3, <3>4 DEF Credentials, CC!KeptForItsCamera
    <3>7. Credentials'
      BY <1>0, <3>1, <3>2, <3>3, <3>4, <3>5, <3>6 DEF Credentials
    <3>. QED  BY <1>0, <1>3, <1>c, <3>7 DEF CC!UpdateCredentials, CC!onvifVars, Others
  <2>. QED  BY <1>3, <2>1, <2>2 DEF CC!UpdateCredentials
<1>4. CASE CC!Encrypted
  <2>1. PICK e \in encrypting :
          /\ CC!Kept(e)
          /\ IF e.shown THEN dialogue' = CC!NoRow /\ encrypting' = CC!Gone(encrypting \ {e})
             ELSE UNCHANGED dialogue /\ encrypting' = encrypting \ {e}
    BY <1>4 DEF CC!Encrypted
  <2>2. /\ e \in Encryption /\ e.row \in Cameras /\ e.cred \in Passwords
        /\ <<e.row, e.object, e.cred>> \in ccConfirmed
        /\ UNCHANGED <<object, ccConfirmed>>
    BY <1>0, <1>4, <2>1 DEF CC!Encrypted, Credentials, CC!EncryptsConfirmed, Encryption
  <2>3. /\ encrypting' \subseteq Encryption
        /\ \A q \in encrypting' : \E f \in encrypting :
             q.row = f.row /\ q.object = f.object /\ q.cred = f.cred
        /\ \A f \in encrypting \ {e} : \E q \in encrypting' :
             q.row = f.row /\ q.object = f.object /\ q.cred = f.cred
    BY <1>0, <2>1, GoneEncryptions DEF Credentials
  <2>4. /\ cred' \in [Cameras -> Passwords \cup {CC!Unset}]
        /\ \A c \in Cameras : cred'[c] =
             IF c = e.row /\ object[c] = e.object THEN e.cred ELSE cred[c]
    BY <1>0, <2>1, <2>2 DEF Credentials, CC!Kept
  <2>5. CC!EncryptsConfirmed'
    BY <1>0, <2>2, <2>3 DEF Credentials, CC!EncryptsConfirmed
  <2>6. CC!KeptForItsCamera'
    <3>. SUFFICES ASSUME NEW c \in Cameras
                  PROVE  /\ cred'[c] # CC!Unset => <<c, object[c], cred'[c]>> \in ccConfirmed
                         /\ (\E p \in Passwords : <<c, object[c], p>> \in ccConfirmed) =>
                              \/ cred'[c] # CC!Unset
                              \/ \E q \in encrypting' : q.row = c /\ q.object = object[c]
      BY <2>2 DEF CC!KeptForItsCamera
    <3>1. CASE c = e.row /\ object[c] = e.object
      BY <2>2, <2>4, <3>1, ConfigurationAssumption DEF CC!Unset
    <3>2. CASE ~(c = e.row /\ object[c] = e.object)
      BY <1>0, <2>3, <2>4, <3>2 DEF Credentials, CC!KeptForItsCamera
    <3>. QED  BY <3>1, <3>2
  <2>7. Credentials'
    BY <1>0, <2>2, <2>3, <2>4, <2>5, <2>6 DEF Credentials
  <2>. QED  BY <1>0, <1>4, <1>c, <2>1, <2>7 DEF CC!Encrypted, CC!onvifVars, Others
<1>5. CASE CC!SetOnvifCredentials
  <2>1. Others'
    BY <1>0, <1>5 DEF CC!SetOnvifCredentials, Others
  <2>. QED  BY <1>5, <1>b, <1>c, <2>1 DEF CC!SetOnvifCredentials
<1>6. CASE CC!SetDone
  <2>1. Others'
    BY <1>0, <1>6, <1>a DEF CC!SetDone, Others
  <2>. QED  BY <1>6, <1>b, <1>c, <2>1 DEF CC!SetDone
<1>7. CASE CC!HaveDone
  <2>1. Others'
    BY <1>0, <1>7, <1>a DEF CC!HaveDone, Others
  <2>. QED  BY <1>7, <1>b, <1>c, <2>1 DEF CC!HaveDone
<1>8. CASE CC!GetSnapshot
  <2>1. PICK c \in Cameras :
          CASE snapShotKey = c ->
                 snapShotKey' = CC!NoRow /\ UNCHANGED <<asked, crossing, shots>>
            [] snapShotKey # c /\ c \notin WithUri ->
                 UNCHANGED <<snapShotKey, asked, crossing, shots>>
            [] OTHER ->
                 /\ snapShotKey' = c
                 /\ taken + shots < MaxAsked /\ shots' = shots + 1
                 /\ asked' = asked \cup {CC!Request(c)}
                 /\ crossing' = (asked # {})
    BY <1>8 DEF CC!GetSnapshot
  <2>2. snapshotLoading' /\ snapshotLoading' \in BOOLEAN /\ snapshot' = snapshot
    BY <1>8, Zenon DEF CC!GetSnapshot
  <2>3. CC!Request(c) \in CC!Shot /\ CC!Request(c).row = c
    BY <1>0 DEF CC!Request, CC!Shot, Credentials
  <2>4. ASSUME snapShotKey = c
        PROVE  Snapshots'
    <3>1. snapShotKey' = CC!NoRow /\ UNCHANGED <<asked, crossing, shots>>
      BY <2>1, <2>4
    <3>. QED  BY <1>0, <2>2, <3>1 DEF Snapshots, CC!WaitsForItsOwn
  <2>5. ASSUME snapShotKey # c /\ c \notin WithUri
        PROVE  Snapshots'
    <3>1. UNCHANGED <<snapShotKey, asked, crossing, shots>>
      BY <2>1, <2>5
    <3>. QED  BY <1>0, <2>2, <3>1 DEF Snapshots, CC!WaitsForItsOwn
  <2>6. ASSUME snapShotKey # c /\ c \in WithUri
        PROVE  Snapshots'
    <3>1. /\ snapShotKey' = c /\ shots' = shots + 1
          /\ asked' = asked \cup {CC!Request(c)} /\ crossing' = (asked # {})
      BY <2>1, <2>6
    <3>2. CC!WaitsForItsOwn'
      BY <2>2, <2>3, <3>1 DEF CC!WaitsForItsOwn
    <3>3. shots' \in Nat /\ crossing' \in BOOLEAN
      BY <1>0, <3>1 DEF Snapshots
    <3>. QED  BY <1>0, <2>2, <2>3, <3>1, <3>2, <3>3 DEF Snapshots
  <2>7. Snapshots'
    BY <2>4, <2>5, <2>6
  <2>. QED  BY <1>0, <1>8, <1>b, <2>7 DEF CC!GetSnapshot, CC!onvifVars, Others
<1>9. CASE CC!GotSnapshot
  <2>1. Snapshots'
    BY <1>0, <1>9 DEF CC!GotSnapshot, Snapshots, CC!WaitsForItsOwn
  <2>. QED  BY <1>0, <1>9, <1>b, <2>1 DEF CC!GotSnapshot, CC!onvifVars, Others
<1>10. CASE CC!SnapshotFailed
  <2>1. Snapshots'
    BY <1>0, <1>10 DEF CC!SnapshotFailed, Snapshots, CC!WaitsForItsOwn
  <2>. QED  BY <1>0, <1>10, <1>b, <2>1 DEF CC!SnapshotFailed, CC!onvifVars, Others
<1>11. CASE CC!ReplaceCamera
  <2>1. PICK c \in Cameras :
          /\ object[c] = 0 /\ object' = [object EXCEPT ![c] = 1]
          /\ cred' = [cred EXCEPT ![c] = CC!Unset]
          /\ crossing' = (crossing \/ snapShotKey = c)
    BY <1>11 DEF CC!ReplaceCamera
  <2>2. /\ encrypting' = CC!Gone(encrypting) /\ UNCHANGED ccConfirmed
        /\ encrypting' \subseteq Encryption
        /\ \A q \in encrypting' : \E e \in encrypting :
             q.row = e.row /\ q.object = e.object /\ q.cred = e.cred
        /\ \A e \in encrypting : \E q \in encrypting' :
             q.row = e.row /\ q.object = e.object /\ q.cred = e.cred
    BY <1>0, <1>11, GoneEncryptions DEF CC!ReplaceCamera, Credentials
  <2>3. /\ object' \in [Cameras -> {0, 1}] /\ cred' \in [Cameras -> Passwords \cup {CC!Unset}]
        /\ object'[c] = 1 /\ cred'[c] = CC!Unset
        /\ \A d \in Cameras : d # c => object'[d] = object[d] /\ cred'[d] = cred[d]
    BY <1>0, <2>1 DEF Credentials
  <2>4. CC!EncryptsConfirmed'
    <3>1. \A e \in encrypting' : <<e.row, e.object, e.cred>> \in ccConfirmed'
      BY <1>0, <2>2 DEF Credentials, CC!EncryptsConfirmed
    <3>2. ASSUME NEW k \in ccConfirmed
          PROVE  k[2] <= object'[k[1]]
      <4>1. k[1] \in Cameras /\ k[2] \in {0, 1} /\ k[2] <= object[k[1]]
        BY <1>0 DEF Credentials, CC!EncryptsConfirmed
      <4>. QED  BY <2>3, <4>1
    <3>. QED  BY <2>2, <3>1, <3>2 DEF CC!EncryptsConfirmed
  <2>5. CC!KeptForItsCamera'
    <3>. SUFFICES ASSUME NEW d \in Cameras
                  PROVE  /\ cred'[d] # CC!Unset => <<d, object'[d], cred'[d]>> \in ccConfirmed
                         /\ (\E p \in Passwords : <<d, object'[d], p>> \in ccConfirmed) =>
                              \/ cred'[d] # CC!Unset
                              \/ \E q \in encrypting' : q.row = d /\ q.object = object'[d]
      BY <2>2 DEF CC!KeptForItsCamera
    <3>1. CASE d = c
      <4>1. ASSUME NEW p \in Passwords, <<d, object'[d], p>> \in ccConfirmed
            PROVE  FALSE
        <5>1. <<c, 1, p>> \in ccConfirmed
          BY <2>3, <3>1, <4>1
        <5>2. <<c, 1, p>>[2] <= object[<<c, 1, p>>[1]]
          BY <1>0, <5>1, Zenon DEF Credentials, CC!EncryptsConfirmed
        <5>. QED  BY <2>1, <5>2
      <4>. QED  BY <2>3, <3>1, <4>1
    <3>2. CASE d # c
      BY <1>0, <2>2, <2>3, <3>2 DEF Credentials, CC!KeptForItsCamera
    <3>. QED  BY <3>1, <3>2
  <2>6. Credentials'
    BY <1>0, <2>2, <2>3, <2>4, <2>5 DEF Credentials
  <2>7. Snapshots'
    BY <1>0, <1>11, <2>1 DEF CC!ReplaceCamera, Snapshots, CC!WaitsForItsOwn
  <2>8. onvifCalls' \in Seq({"have", "set"})
    BY <1>0, <1>11 DEF CC!ReplaceCamera, Others
  <2>. QED  BY <1>0, <1>11, <2>6, <2>7, <2>8 DEF CC!ReplaceCamera, Others
<1>. QED
  BY <1>1, <1>2, <1>3, <1>4, <1>5, <1>6, <1>7, <1>8, <1>9, <1>10, <1>11 DEF CC!Next

(* The snapshot of a row that waits for none is the row's. *)
LEMMA SnapshotShown ==
  ASSUME CC!IInv
  PROVE  CC!ShowsItsSnapshot
BY DEF CC!IInv, CC!WaitsForItsOwn, CC!ShowsItsSnapshot

-----------------------------------------------------------------------------
(* AdminHosting: the requests for hosting, and what they leave of each other. *)

HostingCall ==
  [user : Users, kind : {"close"}, device : {AG!NoDevice}, answer : {"none"}]
    \cup [user : Users, kind : {"get"}, device : Devices, answer : {"none", "ok", "in use"}]

(* t has the elements of s at the indices in kept, in their order. *)
Thins(t, s, kept) ==
  /\ t \in Seq(HostingCall) /\ kept \subseteq DOMAIN s
  /\ \E g \in [DOMAIN t -> kept] :
       /\ \A k, l \in DOMAIN t : k < l => g[k] < g[l]
       /\ \A k \in DOMAIN t : t[k] = s[g[k]]
       /\ \A i \in kept : \E k \in DOMAIN t : g[k] = i

LEMMA RemoveAtThins ==
  ASSUME NEW s \in Seq(HostingCall), NEW i \in DOMAIN s
  PROVE  Thins(AG!RemoveAt(s, i), s, DOMAIN s \ {i})
<1>. DEFINE t == RemoveAt(s, i)
            From(j) == IF j < i THEN j ELSE j + 1
            g == [j \in DOMAIN t |-> From(j)]
<1>1. AG!RemoveAt(s, i) = t
  BY DEF AG!RemoveAt, RemoveAt
<1>2. PICK n \in Nat \ {0} :
        /\ t \in Seq(HostingCall) /\ DOMAIN s = 1 .. n /\ DOMAIN t = 1 .. n - 1
        /\ \A j \in 1 .. n - 1 : t[j] = IF j < i THEN s[j] ELSE s[j + 1]
  BY RemoveAtAt
<1>3. /\ \A j \in 1 .. n - 1 : From(j) \in 1 .. n /\ From(j) # i
      /\ \A k, l \in 1 .. n - 1 : k < l => From(k) < From(l)
      /\ \A j \in 1 .. n - 1 : t[j] = s[From(j)]
      /\ \A j \in 1 .. n : j # i => \E k \in 1 .. n - 1 : From(k) = j
  <2>1. i \in 1 .. n
    BY <1>2
  <2>2. ASSUME NEW j \in 1 .. n, j # i
        PROVE  \E k \in 1 .. n - 1 : From(k) = j
    <3>1. CASE j < i
      BY <2>1, <3>1
    <3>2. CASE ~(j < i)
      <4>1. j - 1 \in 1 .. n - 1 /\ ~(j - 1 < i) /\ (j - 1) + 1 = j
        BY <2>1, <2>2, <3>2
      <4>. QED  BY <4>1
    <3>. QED  BY <3>1, <3>2
  <2>. HIDE DEF t
  <2>. QED  BY <1>2, <2>1, <2>2
<1>. HIDE DEF t, From
<1>4. /\ g \in [DOMAIN t -> DOMAIN s \ {i}]
      /\ \A k \in DOMAIN t : g[k] = From(k)
  BY <1>2, <1>3
<1>. HIDE DEF g
<1>5. /\ \A k, l \in DOMAIN t : k < l => g[k] < g[l]
      /\ \A k \in DOMAIN t : t[k] = s[g[k]]
      /\ \A j \in DOMAIN s \ {i} : \E k \in DOMAIN t : g[k] = j
  <2>1. DOMAIN t = 1 .. n - 1 /\ DOMAIN s = 1 .. n
    BY <1>2
  <2>2. \A k \in 1 .. n - 1 : k \in DOMAIN t /\ g[k] = From(k)
    BY <1>4, <2>1, Zenon
  <2>3. \A k, l \in DOMAIN t : k < l => g[k] < g[l]
    BY <1>3, <2>1, <2>2
  <2>4. \A k \in DOMAIN t : t[k] = s[g[k]]
    BY <1>3, <2>1, <2>2
  <2>5. \A j \in DOMAIN s \ {i} : \E k \in DOMAIN t : g[k] = j
    BY <1>3, <2>1, <2>2
  <2>. QED  BY <2>3, <2>4, <2>5
<1>6. Thins(t, s, DOMAIN s \ {i})
  BY <1>2, <1>4, <1>5, Zenon DEF Thins
<1>. QED  BY <1>1, <1>6

LEMMA LeftOfThins ==
  ASSUME NEW s \in Seq(HostingCall), NEW kept \in SUBSET DOMAIN s,
         NEW t \in AG!LeftOf(s, kept)
  PROVE  Thins(t, s, kept)
<1>1. PICK g \in UNION {[1 .. n -> kept] : n \in 0 .. Len(s)} :
        /\ \A k, l \in DOMAIN g : k < l => g[k] < g[l]
        /\ \A i \in kept : \E k \in DOMAIN g : g[k] = i
        /\ t = [k \in DOMAIN g |-> s[g[k]]]
  BY DEF AG!LeftOf
<1>2. PICK n \in 0 .. Len(s) : g \in [1 .. n -> kept]
  BY <1>1
<1>3. n \in Nat /\ DOMAIN g = 1 .. n /\ DOMAIN t = 1 .. n
  BY <1>1, <1>2, LenProperties
<1>4. \A k \in 1 .. n : g[k] \in kept /\ t[k] = s[g[k]] /\ t[k] \in HostingCall
  BY <1>1, <1>2, <1>3, ElementOfSeq, LenProperties
<1>5. t \in [1 .. n -> HostingCall]
  BY <1>1, <1>3, <1>4
<1>6. t \in Seq(HostingCall)
  BY <1>3, <1>5
<1>. QED  BY <1>1, <1>2, <1>3, <1>4, <1>6 DEF Thins

(* The requests of a user are answered in order; the last that was granted to the *)
(* user of h is of h's device; none was granted.                                  *)
InOrder(cs) ==
  \A i, j \in DOMAIN cs :
    (i < j /\ cs[i].kind = "get" /\ cs[j].kind = "get" /\ cs[i].user = cs[j].user
       /\ cs[j].answer # "none") => cs[i].answer # "none"
Ok(cs, i, u) == cs[i].user = u /\ cs[i].answer = "ok"
IsLastOk(cs, i, h) ==
  Ok(cs, i, h.user) /\ cs[i].device = h.device /\ \A j \in DOMAIN cs : Ok(cs, j, h.user) => j <= i
LastOk(cs, h) == \E i \in DOMAIN cs : IsLastOk(cs, i, h)
NoneOk(cs, u) == \A j \in DOMAIN cs : ~Ok(cs, j, u)

LEMMA ThinnedCalls ==
  ASSUME NEW s \in Seq(HostingCall), NEW t, NEW kept, Thins(t, s, kept)
  PROVE  /\ t \in Seq(HostingCall)
         /\ InOrder(s) => InOrder(t)
         /\ \A h : \A i \in kept : IsLastOk(s, i, h) => LastOk(t, h)
         /\ \A u : (\A i \in kept : ~Ok(s, i, u)) => NoneOk(t, u)
<1>1. PICK g \in [DOMAIN t -> kept] :
        /\ \A k, l \in DOMAIN t : k < l => g[k] < g[l]
        /\ \A k \in DOMAIN t : t[k] = s[g[k]]
        /\ \A i \in kept : \E k \in DOMAIN t : g[k] = i
  BY DEF Thins
<1>2. t \in Seq(HostingCall) /\ kept \subseteq DOMAIN s
  BY DEF Thins
<1>3. \A k \in DOMAIN t : g[k] \in kept /\ g[k] \in DOMAIN s
  BY <1>1, <1>2
<1>4. DOMAIN t \subseteq Nat /\ DOMAIN s \subseteq Nat
  BY <1>2, LenProperties
<1>5. ASSUME InOrder(s)
      PROVE  InOrder(t)
  BY <1>1, <1>3, <1>5 DEF InOrder
<1>6. ASSUME NEW h, NEW i \in kept, IsLastOk(s, i, h)
      PROVE  LastOk(t, h)
  <2>1. PICK k \in DOMAIN t : g[k] = i
    BY <1>1
  <2>2. ASSUME NEW j \in DOMAIN t, Ok(t, j, h.user)
        PROVE  j <= k
    <3>1. g[j] <= g[k]
      BY <1>1, <1>3, <1>6, <2>1, <2>2 DEF IsLastOk, Ok
    <3>2. g[j] \in Nat /\ g[k] \in Nat /\ j \in Nat /\ k \in Nat
      BY <1>3, <1>4
    <3>. QED  BY <1>1, <3>1, <3>2
  <2>. QED  BY <1>1, <1>6, <2>1, <2>2 DEF LastOk, IsLastOk, Ok
<1>7. ASSUME NEW u, \A i \in kept : ~Ok(s, i, u)
      PROVE  NoneOk(t, u)
  BY <1>1, <1>3, <1>7 DEF NoneOk, Ok
<1>. QED  BY <1>2, <1>5, <1>6, <1>7

LEMMA SentCall ==
  ASSUME NEW s \in Seq(HostingCall), NEW e \in HostingCall, e.answer = "none"
  PROVE  /\ Append(s, e) \in Seq(HostingCall)
         /\ InOrder(s) => InOrder(Append(s, e))
         /\ \A h : LastOk(s, h) => LastOk(Append(s, e), h)
         /\ \A u : NoneOk(s, u) => NoneOk(Append(s, e), u)
<1>. DEFINE t == Append(s, e)
<1>1. PICK n \in Nat :
        /\ t \in Seq(HostingCall) /\ DOMAIN s = 1 .. n /\ DOMAIN t = 1 .. n + 1
        /\ \A i \in 1 .. n : t[i] = s[i]
        /\ t[n + 1] = e
  BY AppendAt
<1>. HIDE DEF t
<1>2. /\ \A i \in DOMAIN s : i \in DOMAIN t /\ t[i] = s[i]
      /\ \A i \in DOMAIN t : i \in DOMAIN s \/ t[i].answer = "none"
  <2>1. \A i \in 1 .. n : i \in 1 .. n + 1
    OBVIOUS
  <2>2. \A i \in 1 .. n + 1 : i \in 1 .. n \/ i = n + 1
    OBVIOUS
  <2>. QED  BY <1>1, <2>1, <2>2, Zenon
<1>3. ASSUME NEW i \in DOMAIN s, NEW j \in DOMAIN t, i < j, t[j].answer # "none"
      PROVE  j \in DOMAIN s
  BY <1>2, <1>3
<1>4. ASSUME InOrder(s)
      PROVE  InOrder(t)
  <2>. SUFFICES ASSUME NEW i \in DOMAIN t, NEW j \in DOMAIN t,
                       i < j, t[i].kind = "get", t[j].kind = "get", t[i].user = t[j].user,
                       t[j].answer # "none"
                PROVE  t[i].answer # "none"
    BY DEF InOrder
  <2>1. j \in DOMAIN s /\ j \in 1 .. n
    BY <1>1, <1>2
  <2>2. i \in 1 .. n + 1
    BY <1>1
  <2>3. i \in 1 .. n
    BY <2>1, <2>2
  <2>. QED  BY <1>1, <1>2, <1>4, <2>1, <2>3 DEF InOrder
<1>5. ASSUME NEW h, LastOk(s, h)
      PROVE  LastOk(t, h)
  BY <1>2, <1>5 DEF LastOk, IsLastOk, Ok
<1>6. ASSUME NEW u, NoneOk(s, u)
      PROVE  NoneOk(t, u)
  BY <1>2, <1>6 DEF NoneOk, Ok
<1>. QED  BY <1>1, <1>4, <1>5, <1>6 DEF t

(* What the invariant says of the variables. *)
Link == [user : Users, to : AG!Hosts, stage : {"read", "listed"}]
Pages ==
  /\ shown \in [Users -> BOOLEAN] /\ address \in [Users -> Devices \cup {AG!NoDevice}]
  /\ tab \in [Users -> Devices \cup {AG!NoDevice}] /\ strayTab \in BOOLEAN
  /\ AG!NoTabUnshown
Agrees(cs, h, opened) ==
  LastOk(cs, h) \/ (NoneOk(cs, h.user) /\ opened[h.user] \in {AG!NoDevice, h.device})
Calls ==
  /\ hostCalls \in Seq(HostingCall) /\ overtaken \in BOOLEAN
  /\ hosted \in AG!Hosts \cup {AG!NoHost}
  /\ ~overtaken => InOrder(hostCalls)
  /\ ~overtaken /\ hosted # AG!NoHost => Agrees(hostCalls, hosted, tab)
Links ==
  /\ connections \subseteq Link /\ listedLate \in BOOLEAN
  /\ AG!ClosedWithHosting

LEMMA HostingParts == AG!IInv <=> Pages /\ Calls /\ Links
<1>1. AG!ServedInOrder <=> (~overtaken => InOrder(hostCalls))
  BY DEF AG!ServedInOrder, AG!Asks, InOrder
<1>2. AG!LastIsHosted <=> (~overtaken /\ hosted # AG!NoHost => Agrees(hostCalls, hosted, tab))
  BY DEF AG!LastIsHosted, AG!Granted, Agrees, LastOk, IsLastOk, NoneOk, Ok
<1>. QED
  BY <1>1, <1>2, Zenon DEF AG!IInv, AG!TypeOK, Pages, Calls, Links, HostingCall, Link

LEMMA HostingPartsNext == AG!IInv' <=> Pages' /\ Calls' /\ Links'
BY HostingParts, PTL

LEMMA NoHostIsNone == AG!NoHost \notin AG!Hosts
BY ConfigurationAssumption DEF AG!NoHost, AG!Hosts, AG!NoDevice

LEMMA HostingInit ==
  ASSUME AG!Init
  PROVE  AG!IInv
<1>1. Pages
  BY DEF AG!Init, Pages, AG!NoTabUnshown
<1>2. Calls
  <2>1. hostCalls = << >> /\ overtaken = FALSE /\ hosted = AG!NoHost
    BY DEF AG!Init
  <2>2. hostCalls \in Seq(HostingCall) /\ InOrder(hostCalls)
    BY <2>1, EmptySeq DEF InOrder
  <2>. QED  BY <2>1, <2>2 DEF Calls
<1>3. Links
  BY DEF AG!Init, Links, AG!ClosedWithHosting
<1>. QED  BY <1>1, <1>2, <1>3, HostingParts

(* The answer to a call is taken, or a call to close is served: it is gone. *)
LEMMA CallGone ==
  ASSUME Calls, NEW i \in DOMAIN hostCalls, hostCalls' = AG!RemoveAt(hostCalls, i)
  PROVE  /\ hostCalls' \in Seq(HostingCall)
         /\ InOrder(hostCalls) => InOrder(hostCalls')
         /\ \A h : \A w \in DOMAIN hostCalls :
              w # i /\ IsLastOk(hostCalls, w, h) => LastOk(hostCalls', h)
         /\ \A u : (\A w \in DOMAIN hostCalls : w # i => ~Ok(hostCalls, w, u))
              => NoneOk(hostCalls', u)
<1>1. hostCalls \in Seq(HostingCall)
  BY DEF Calls
<1>2. Thins(hostCalls', hostCalls, DOMAIN hostCalls \ {i})
  BY <1>1, RemoveAtThins
<1>. DEFINE kept == DOMAIN hostCalls \ {i}
<1>3. \A w \in DOMAIN hostCalls : w # i <=> w \in kept
  OBVIOUS
<1>4. Thins(hostCalls', hostCalls, kept)
  BY <1>2
<1>. HIDE DEF kept
<1>5. /\ hostCalls' \in Seq(HostingCall)
      /\ InOrder(hostCalls) => InOrder(hostCalls')
      /\ \A h : \A w \in kept : IsLastOk(hostCalls, w, h) => LastOk(hostCalls', h)
      /\ \A u : (\A w \in kept : ~Ok(hostCalls, w, u)) => NoneOk(hostCalls', u)
  BY <1>1, <1>4, ThinnedCalls
<1>6. kept \subseteq DOMAIN hostCalls
  BY DEF kept
<1>. QED  BY <1>3, <1>5, <1>6

LEMMA HostingStep ==
  ASSUME AG!IInv, AG!Next
  PROVE  AG!IInv'
<1>. SUFFICES Pages' /\ Calls' /\ Links'
  BY HostingPartsNext
<1>0. Pages /\ Calls /\ Links
  BY HostingParts
<1>a. ASSUME UNCHANGED <<hostCalls, hosted, overtaken, tab>>
      PROVE  Calls'
  BY <1>0, <1>a DEF Calls, Agrees
<1>b. ASSUME UNCHANGED <<shown, address, tab, strayTab>>
      PROVE  Pages'
  BY <1>0, <1>b DEF Pages, AG!NoTabUnshown
<1>c. ASSUME UNCHANGED <<hosted, listedLate>>, connections' \subseteq connections
      PROVE  Links'
  BY <1>0, <1>c DEF Links, AG!ClosedWithHosting
<1>d. ASSUME NEW u \in Users, AG!ClosePage(u), UNCHANGED strayTab
      PROVE  /\ Pages' /\ connections' \subseteq connections
             /\ tab'[u] = AG!NoDevice /\ \A v \in Users : v # u => tab'[v] = tab[v]
  BY <1>0, <1>d DEF AG!ClosePage, AG!Left, Pages, AG!NoTabUnshown
<1>e. hosted # AG!NoHost => hosted.user \in Users /\ hosted.device \in Devices
  BY <1>0 DEF Calls, AG!Hosts
<1>f. ASSUME NEW k \in DOMAIN hostCalls
      PROVE  /\ hostCalls[k] \in HostingCall /\ hostCalls[k].user \in Users
             /\ hostCalls[k].answer \in {"none", "ok", "in use"}
             /\ hostCalls[k].answer # "none" => hostCalls[k].kind = "get"
             /\ hostCalls[k].kind # "close" =>
                  hostCalls[k].kind = "get" /\ hostCalls[k].device \in Devices
  <2>1. hostCalls[k] \in HostingCall
    BY <1>0, <1>f, ElementOfSeq, LenProperties DEF Calls
  <2>. QED  BY <2>1 DEF HostingCall
<1>1. CASE AG!Route
  <2>1. PICK u \in Users, d \in Devices, known \in BOOLEAN :
          LET now == IF known THEN d ELSE address[u] IN
          /\ address' = [address EXCEPT ![u] = now]
          /\ shown' = [shown EXCEPT ![u] = TRUE]
          /\ hostCalls' = hostCalls \o <<AG!HostCall(u, "close", AG!NoDevice)>> \o
               (IF now = AG!NoDevice THEN <<>> ELSE <<AG!HostCall(u, "get", now)>>)
    BY <1>1 DEF AG!Route
  <2>. DEFINE now == IF known THEN d ELSE address[u]
              close == AG!HostCall(u, "close", AG!NoDevice)
              get == AG!HostCall(u, "get", now)
              ask == Append(hostCalls, close)
  <2>2. /\ close \in HostingCall /\ close.answer = "none"
        /\ now # AG!NoDevice => get \in HostingCall /\ get.answer = "none"
        /\ now \in Devices \cup {AG!NoDevice}
    BY <1>0 DEF AG!HostCall, HostingCall, Pages
  <2>3. UNCHANGED <<tab, strayTab, hosted, connections, overtaken, listedLate>>
    BY <1>1 DEF AG!Route
  <2>4. Pages'
    BY <1>0, <2>1, <2>2, <2>3 DEF Pages, AG!NoTabUnshown
  <2>5. /\ ask \in Seq(HostingCall)
        /\ InOrder(hostCalls) => InOrder(ask)
        /\ \A h : LastOk(hostCalls, h) => LastOk(ask, h)
        /\ \A v : NoneOk(hostCalls, v) => NoneOk(ask, v)
    BY <1>0, <2>2, SentCall DEF Calls
  <2>6. hostCalls' = IF now = AG!NoDevice THEN ask ELSE Append(ask, get)
    <3>. HIDE DEF get, close
    <3>1. \A cs \in Seq(HostingCall), e \in HostingCall : cs \o <<e>> = Append(cs, e)
      OBVIOUS
    <3>2. \A cs \in Seq(HostingCall) : cs \o <<>> = cs
      OBVIOUS
    <3>. QED  BY <1>0, <2>1, <2>2, <2>5, <3>1, <3>2 DEF Calls, get, close
  <2>. HIDE DEF ask, get, close, now
  <2>7. /\ hostCalls' \in Seq(HostingCall)
        /\ InOrder(hostCalls) => InOrder(hostCalls')
        /\ \A h : LastOk(hostCalls, h) => LastOk(hostCalls', h)
        /\ \A v : NoneOk(hostCalls, v) => NoneOk(hostCalls', v)
    <3>1. CASE now = AG!NoDevice
      BY <2>5, <2>6, <3>1
    <3>2. CASE now # AG!NoDevice
      BY <2>2, <2>5, <2>6, <3>2, SentCall
    <3>. QED  BY <3>1, <3>2
  <2>8. Calls'
    BY <1>0, <2>3, <2>7 DEF Calls, Agrees
  <2>. QED  BY <1>c, <2>3, <2>4, <2>8
<1>2. CASE AG!LeavePage
  <2>1. PICK u \in Users : AG!ClosePage(u)
    BY <1>2 DEF AG!LeavePage
  <2>2. UNCHANGED <<strayTab, hostCalls, hosted, overtaken, listedLate>>
    BY <1>2 DEF AG!LeavePage
  <2>3. Calls'
    BY <1>0, <1>d, <1>e, <2>1, <2>2 DEF Calls, Agrees
  <2>. QED  BY <1>c, <1>d, <2>1, <2>2, <2>3
<1>3. CASE AG!Unload
  <2>1. PICK u \in Users :
          /\ AG!ClosePage(u)
          /\ \E left \in AG!LeftOf(hostCalls, {i \in DOMAIN hostCalls :
                              hostCalls[i].user # u \/ hostCalls[i].answer = "none"}) :
               hostCalls' = Append(left, AG!HostCall(u, "close", AG!NoDevice))
    BY <1>3 DEF AG!Unload
  <2>. DEFINE kept == {i \in DOMAIN hostCalls :
                         hostCalls[i].user # u \/ hostCalls[i].answer = "none"}
              close == AG!HostCall(u, "close", AG!NoDevice)
  <2>2. PICK left \in AG!LeftOf(hostCalls, kept) : hostCalls' = Append(left, close)
    BY <2>1
  <2>3. close \in HostingCall /\ close.answer = "none"
    BY DEF AG!HostCall, HostingCall
  <2>4. UNCHANGED <<strayTab, hosted, overtaken, listedLate>>
    BY <1>3 DEF AG!Unload
  <2>5. /\ left \in Seq(HostingCall)
        /\ InOrder(hostCalls) => InOrder(left)
        /\ \A h : \A i \in kept : IsLastOk(hostCalls, i, h) => LastOk(left, h)
        /\ \A v : (\A i \in kept : ~Ok(hostCalls, i, v)) => NoneOk(left, v)
    <3>1. kept \in SUBSET DOMAIN hostCalls
      OBVIOUS
    <3>. HIDE DEF kept
    <3>2. Thins(left, hostCalls, kept)
      BY <1>0, <2>2, <3>1, LeftOfThins DEF Calls
    <3>. QED  BY <1>0, <3>2, ThinnedCalls DEF Calls
  <2>6. /\ hostCalls' \in Seq(HostingCall)
        /\ InOrder(hostCalls) => InOrder(hostCalls')
        /\ \A h : LastOk(left, h) => LastOk(hostCalls', h)
        /\ \A v : NoneOk(left, v) => NoneOk(hostCalls', v)
    <3>. HIDE DEF kept, close
    <3>. QED  BY <2>2, <2>3, <2>5, SentCall
  <2>7. ASSUME ~overtaken, hosted # AG!NoHost
        PROVE  Agrees(hostCalls', hosted, tab')
    <3>1. CASE hosted.user = u
      <4>1. \A i \in kept : ~Ok(hostCalls, i, u)
        BY DEF Ok
      <4>2. NoneOk(hostCalls', u)
        BY <2>5, <2>6, <4>1
      <4>. QED  BY <1>d, <2>1, <2>4, <3>1, <4>2 DEF Agrees
    <3>2. CASE hosted.user # u
      <4>1. \A i \in DOMAIN hostCalls : Ok(hostCalls, i, hosted.user) => i \in kept
        BY <3>2 DEF Ok
      <4>2. LastOk(hostCalls, hosted) => LastOk(hostCalls', hosted)
        BY <2>5, <2>6, <4>1 DEF LastOk, IsLastOk
      <4>3. NoneOk(hostCalls, hosted.user) => NoneOk(hostCalls', hosted.user)
        BY <2>5, <2>6 DEF NoneOk
      <4>4. tab'[hosted.user] = tab[hosted.user]
        BY <1>d, <1>e, <2>1, <2>4, <2>7, <3>2
      <4>. QED  BY <1>0, <2>7, <4>2, <4>3, <4>4 DEF Calls, Agrees
    <3>. QED  BY <3>1, <3>2
  <2>8. Calls'
    BY <1>0, <2>4, <2>6, <2>5, <2>7 DEF Calls
  <2>. QED  BY <1>c, <1>d, <2>1, <2>4, <2>8
<1>4. CASE AG!ServeHosting
  <2>1. PICK i \in DOMAIN hostCalls :
          /\ hostCalls[i].answer = "none"
          /\ AG!Overtakes(i)
          /\ IF hostCalls[i].kind = "close"
             THEN /\ hosted' = AG!NoHost
                  /\ connections' = AG!CloseClients(connections)
                  /\ hostCalls' = AG!RemoveAt(hostCalls, i)
             ELSE /\ hosted' = IF hosted = AG!NoHost
                               THEN [user |-> hostCalls[i].user, device |-> hostCalls[i].device]
                               ELSE hosted
                  /\ hostCalls' = [hostCalls EXCEPT ![i].answer =
                                     IF hosted = AG!NoHost THEN "ok" ELSE "in use"]
                  /\ UNCHANGED connections
    BY <1>4 DEF AG!ServeHosting
  <2>2. UNCHANGED <<shown, address, tab, strayTab, listedLate>>
    BY <1>4 DEF AG!ServeHosting
  <2>3. overtaken' \in BOOLEAN /\ (overtaken => overtaken')
    BY <1>0, <2>1 DEF AG!Overtakes, Calls
  <2>4. CASE hostCalls[i].kind = "close"
    <3>1. /\ hosted' = AG!NoHost /\ hostCalls' = AG!RemoveAt(hostCalls, i)
          /\ connections' = AG!CloseClients(connections)
      BY <2>1, <2>4
    <3>2. Calls'
      BY <1>0, <2>3, <3>1, CallGone DEF Calls
    <3>3. Links'
      BY <1>0, <2>2, <3>1 DEF Links, AG!ClosedWithHosting, AG!CloseClients
    <3>. QED  BY <1>b, <2>2, <3>2, <3>3
  <2>5. CASE hostCalls[i].kind # "close"
    <3>. DEFINE r == hostCalls[i]
                answer == IF hosted = AG!NoHost THEN "ok" ELSE "in use"
    <3>1. /\ hosted' = IF hosted = AG!NoHost THEN [user |-> r.user, device |-> r.device]
                       ELSE hosted
          /\ hostCalls' = [hostCalls EXCEPT ![i].answer = answer]
          /\ UNCHANGED connections
      BY <2>1, <2>5
    <3>2. r.kind = "get" /\ r.user \in Users /\ r.device \in Devices /\ r.answer = "none"
      BY <1>f, <2>1, <2>5
    <3>3. /\ hostCalls' \in Seq(HostingCall) /\ DOMAIN hostCalls' = DOMAIN hostCalls
          /\ \A k \in DOMAIN hostCalls : k # i => hostCalls'[k] = hostCalls[k]
          /\ hostCalls'[i] = [r EXCEPT !.answer = answer]
      <4>1. r \in [user : Users, kind : {"get"}, device : Devices,
                   answer : {"none", "ok", "in use"}]
        BY <1>f, <3>2 DEF HostingCall
      <4>2. [r EXCEPT !.answer = answer] \in HostingCall
        BY <4>1 DEF HostingCall
      <4>3. hostCalls' = [hostCalls EXCEPT ![i] = [r EXCEPT !.answer = answer]]
        BY <3>1
      <4>. HIDE DEF r, answer
      <4>. QED  BY <1>0, <4>2, <4>3, ExceptSeq DEF Calls
    <3>4. /\ hostCalls'[i].user = r.user /\ hostCalls'[i].kind = "get"
          /\ hostCalls'[i].device = r.device /\ hostCalls'[i].answer = answer
      BY <1>f, <3>2, <3>3 DEF HostingCall
    <3>5. ASSUME ~overtaken', NEW j \in DOMAIN hostCalls, j < i,
                 hostCalls[j].user = r.user, hostCalls[j].kind = "get"
          PROVE  hostCalls[j].answer # "none"
      <4>1. j \in 1 .. i - 1
        BY <1>0, <3>5, LenProperties DEF Calls
      <4>. QED  BY <2>1, <3>2, <3>5, <4>1 DEF AG!Overtakes
    <3>6. ~overtaken' => InOrder(hostCalls')
      <4>. SUFFICES ASSUME ~overtaken', NEW k \in DOMAIN hostCalls, NEW j \in DOMAIN hostCalls,
                           k < j, hostCalls'[k].kind = "get", hostCalls'[j].kind = "get",
                           hostCalls'[k].user = hostCalls'[j].user,
                           hostCalls'[j].answer # "none"
                    PROVE  hostCalls'[k].answer # "none"
        BY <3>3 DEF InOrder
      <4>1. CASE k = i
        BY <3>4, <4>1
      <4>2. CASE k # i /\ j = i
        BY <3>3, <3>4, <3>5, <4>2
      <4>3. CASE k # i /\ j # i
        BY <1>0, <2>3, <3>3, <4>3 DEF Calls, InOrder
      <4>. QED  BY <4>1, <4>2, <4>3
    <3>7. ASSUME ~overtaken', hosted = AG!NoHost
          PROVE  LastOk(hostCalls', hosted')
      <4>1. hosted'.user = r.user /\ hosted'.device = r.device
        BY <3>1, <3>7
      <4>2. ASSUME NEW j \in DOMAIN hostCalls, Ok(hostCalls', j, r.user)
            PROVE  j <= i
        <5>. SUFFICES ASSUME i < j
                      PROVE  FALSE
          BY <1>0, LenProperties DEF Calls
        <5>0. i \in Nat /\ j \in Nat
          BY <1>0, LenProperties DEF Calls
        <5>1. j # i /\ hostCalls[j].user = r.user /\ hostCalls[j].answer = "ok"
          <6>1. j # i
            BY <5>0
          <6>2. hostCalls'[j] = hostCalls[j]
            BY <3>3, <6>1
          <6>. QED  BY <4>2, <6>1, <6>2 DEF Ok
        <5>2. hostCalls[j].kind = "get"
          BY <1>f, <5>1
        <5>. QED  BY <1>0, <2>3, <3>2, <3>7, <5>1, <5>2 DEF Calls, InOrder
      <4>3. IsLastOk(hostCalls', i, hosted')
        BY <3>3, <3>4, <3>7, <4>1, <4>2 DEF IsLastOk, Ok
      <4>. QED  BY <3>3, <4>3 DEF LastOk
    <3>8. ASSUME ~overtaken', hosted # AG!NoHost
          PROVE  Agrees(hostCalls', hosted, tab)
      <4>1. \A k \in DOMAIN hostCalls : \A v :
              /\ Ok(hostCalls', k, v) <=> Ok(hostCalls, k, v)
              /\ hostCalls'[k].device = hostCalls[k].device
        BY <3>2, <3>3, <3>4, <3>8 DEF Ok
      <4>2. Agrees(hostCalls, hosted, tab)
        BY <1>0, <2>3, <3>8 DEF Calls
      <4>. QED  BY <3>3, <4>1, <4>2 DEF Agrees, LastOk, IsLastOk, NoneOk
    <3>9. Calls'
      <4>1. hosted' \in AG!Hosts \cup {AG!NoHost}
        BY <1>0, <3>1, <3>2 DEF Calls, AG!Hosts
      <4>2. ~overtaken' => Agrees(hostCalls', hosted', tab')
        BY <2>2, <3>1, <3>7, <3>8 DEF Agrees
      <4>. QED  BY <2>3, <3>3, <3>6, <4>1, <4>2 DEF Calls
    <3>10. Links'
      <4>1. CASE hosted = AG!NoHost
        BY <1>0, <2>2, <3>1, <4>1, NoHostIsNone DEF Links, Link, AG!ClosedWithHosting
      <4>2. CASE hosted # AG!NoHost
        BY <1>0, <2>2, <3>1, <4>2 DEF Links, AG!ClosedWithHosting
      <4>. QED  BY <4>1, <4>2
    <3>. QED  BY <1>b, <2>2, <3>9, <3>10
  <2>. QED  BY <2>4, <2>5
<1>5. CASE AG!Answered
  <2>1. PICK i \in DOMAIN hostCalls :
          /\ hostCalls[i].answer # "none"
          /\ AG!Overtakes(i)
          /\ IF hostCalls[i].answer = "in use" THEN UNCHANGED <<tab, strayTab, connections>>
             ELSE IF shown[hostCalls[i].user]
             THEN /\ tab' = [tab EXCEPT ![hostCalls[i].user] =
                               AG!TabOf(hostCalls[i].user, hostCalls[i].device)]
                  /\ connections' = AG!Left(hostCalls[i].user)
                  /\ UNCHANGED strayTab
             ELSE /\ strayTab' = TRUE
                  /\ UNCHANGED <<tab, connections>>
          /\ hostCalls' = AG!RemoveAt(hostCalls, i)
    BY <1>5 DEF AG!Answered
  <2>. DEFINE r == hostCalls[i]
  <2>2. UNCHANGED <<shown, address, hosted, listedLate>>
    BY <1>5 DEF AG!Answered
  <2>3. overtaken' \in BOOLEAN /\ (overtaken => overtaken')
    BY <1>0, <2>1 DEF AG!Overtakes, Calls
  <2>4. r.kind = "get" /\ r.user \in Users /\ r.device \in Devices
        /\ r.answer \in {"ok", "in use"}
    BY <1>f, <2>1
  <2>5. /\ Pages' /\ connections' \subseteq connections
        /\ \A u \in Users : u # r.user => tab'[u] = tab[u]
        /\ r.answer = "in use" => tab' = tab
        /\ tab'[r.user] \in {r.device, tab[r.user]}
        /\ r.answer = "ok" => tab'[r.user] \in {r.device, AG!NoDevice}
    BY <1>0, <2>1, <2>2, <2>4 DEF Pages, AG!NoTabUnshown, AG!Left, AG!TabOf
  <2>6. /\ hostCalls' \in Seq(HostingCall)
        /\ InOrder(hostCalls) => InOrder(hostCalls')
        /\ \A h : \A w \in DOMAIN hostCalls :
             w # i /\ IsLastOk(hostCalls, w, h) => LastOk(hostCalls', h)
        /\ \A u : (\A w \in DOMAIN hostCalls : w # i => ~Ok(hostCalls, w, u))
             => NoneOk(hostCalls', u)
    BY <1>0, <2>1, CallGone
  <2>7. ASSUME ~overtaken', hosted # AG!NoHost
        PROVE  Agrees(hostCalls', hosted, tab')
    <3>1. Agrees(hostCalls, hosted, tab) /\ hosted.user \in Users
      BY <1>0, <1>e, <2>3, <2>7 DEF Calls
    <3>2. CASE ~Ok(hostCalls, i, hosted.user)
      <4>1. LastOk(hostCalls, hosted) => LastOk(hostCalls', hosted)
        BY <2>6, <3>2 DEF LastOk, IsLastOk
      <4>2. NoneOk(hostCalls, hosted.user) => NoneOk(hostCalls', hosted.user)
        BY <2>6 DEF NoneOk
      <4>3. tab'[hosted.user] = tab[hosted.user]
        BY <2>4, <2>5, <3>1, <3>2 DEF Ok
      <4>. QED  BY <3>1, <4>1, <4>2, <4>3 DEF Agrees
    <3>3. CASE Ok(hostCalls, i, hosted.user)
      <4>1. PICK w \in DOMAIN hostCalls : IsLastOk(hostCalls, w, hosted)
        BY <3>1, <3>3 DEF Agrees, NoneOk, LastOk
      <4>2. CASE w # i
        BY <2>6, <4>1, <4>2 DEF Agrees
      <4>3. CASE w = i
        <5>1. ASSUME NEW j \in DOMAIN hostCalls, j # i
              PROVE  ~Ok(hostCalls, j, hosted.user)
          <6>. SUFFICES ASSUME Ok(hostCalls, j, hosted.user)
                        PROVE  FALSE
            OBVIOUS
          <6>1. j \in 1 .. i - 1
            <7>1. j <= i
              BY <4>1, <4>3 DEF IsLastOk
            <7>. QED  BY <1>0, <5>1, <7>1, LenProperties DEF Calls
          <6>2. hostCalls[j].kind = "get" /\ hostCalls[j].user = r.user
            BY <1>f, <3>3 DEF Ok
          <6>. QED  BY <2>1, <2>4, <2>7, <6>1, <6>2 DEF AG!Overtakes
        <5>2. NoneOk(hostCalls', hosted.user)
          BY <2>6, <5>1
        <5>3. tab'[hosted.user] \in {hosted.device, AG!NoDevice}
          BY <2>5, <3>3, <4>1, <4>3 DEF IsLastOk, Ok
        <5>. QED  BY <5>2, <5>3 DEF Agrees
      <4>. QED  BY <4>2, <4>3
    <3>. QED  BY <3>2, <3>3
  <2>8. Calls'
    BY <1>0, <2>2, <2>3, <2>6, <2>7 DEF Calls
  <2>. QED  BY <1>c, <2>2, <2>5, <2>8
<1>6. CASE AG!Connect
  <2>1. PICK u \in Users :
          connections' = connections \cup {[user |-> u, to |-> hosted, stage |-> "read"]}
    BY <1>6 DEF AG!Connect
  <2>2. hosted \in AG!Hosts
        /\ UNCHANGED <<shown, address, tab, strayTab, hostCalls, hosted, overtaken, listedLate>>
    BY <1>0, <1>6 DEF AG!Connect, Calls
  <2>3. Links'
    BY <1>0, <2>1, <2>2 DEF Links, Link, AG!ClosedWithHosting
  <2>. QED  BY <1>a, <1>b, <2>2, <2>3
<1>7. CASE AG!AddClient
  <2>1. PICK c \in connections :
          /\ connections' = (connections \ {c}) \cup {[c EXCEPT !.stage = "listed"]}
          /\ listedLate' = (listedLate \/ c.to # hosted)
    BY <1>7 DEF AG!AddClient
  <2>2. UNCHANGED <<shown, address, tab, strayTab, hostCalls, hosted, overtaken>>
    BY <1>7 DEF AG!AddClient
  <2>3. [c EXCEPT !.stage = "listed"] \in Link /\ [c EXCEPT !.stage = "listed"].to = c.to
    BY <1>0, <2>1 DEF Links, Link
  <2>4. Links'
    BY <1>0, <2>1, <2>2, <2>3 DEF Links, AG!ClosedWithHosting
  <2>. QED  BY <1>a, <1>b, <2>2, <2>4
<1>8. CASE AG!Disconnect
  <2>1. /\ UNCHANGED <<shown, address, tab, strayTab, hostCalls, hosted, overtaken, listedLate>>
        /\ connections' \subseteq connections
    BY <1>8 DEF AG!Disconnect
  <2>. QED  BY <1>a, <1>b, <1>c, <2>1
<1>. QED
  BY <1>1, <1>2, <1>3, <1>4, <1>5, <1>6, <1>7, <1>8 DEF AG!Next

(* With nothing on its way, no answer is. *)
LEMMA HostingIsAgreed ==
  ASSUME AG!IInv
  PROVE  AG!HostingAgrees
<1>1. Calls
  BY HostingParts
<1>2. hostCalls = << >> => ~LastOk(hostCalls, hosted)
  BY DEF LastOk
<1>. QED  BY <1>1, <1>2 DEF Calls, Agrees, AG!HostingAgrees

-----------------------------------------------------------------------------
(* The parts together. *)

LEMMA FailuresStutter ==
  ASSUME OF!IInv, UNCHANGED ofVars
  PROVE  OF!IInv'
<1>1. Table /\ Lists /\ Tries /\ Dialogue /\ Rest
  BY FailuresParts
<1>2. Table' /\ Lists' /\ Tries' /\ Dialogue' /\ Rest'
  BY <1>1 DEF ofVars, Table, Lists, Tries, Dialogue, Rest, In
<1>. QED  BY <1>2, FailuresPartsNext

LEMMA CredentialsStutter ==
  ASSUME CC!IInv, UNCHANGED ccVars
  PROVE  CC!IInv'
<1>1. Credentials /\ Snapshots /\ Others
  BY CredentialsParts
<1>2. Credentials'
  BY <1>1 DEF ccVars, Credentials, CC!KeptForItsCamera, CC!EncryptsConfirmed
<1>3. Snapshots' /\ Others'
  BY <1>1 DEF ccVars, Snapshots, Others, CC!WaitsForItsOwn
<1>. QED  BY <1>2, <1>3, CredentialsPartsNext

LEMMA HostingStutter ==
  ASSUME AG!IInv, UNCHANGED ahgVars
  PROVE  AG!IInv'
<1>1. Pages /\ Calls /\ Links
  BY HostingParts
<1>2. Pages' /\ Calls' /\ Links'
  BY <1>1 DEF ahgVars, Pages, Calls, Links, AG!NoTabUnshown, AG!ClosedWithHosting, Agrees
<1>. QED  BY <1>2, HostingPartsNext

-----------------------------------------------------------------------------
(* The recording dialogue of RecordingDialogue. *)

(* What is shown of a set-up is of its form. *)
LEMMA SetUpFacts ==
  ASSUME NEW c \in RD!SetUps
  PROVE  /\ RD!TriggeredStream(c) \in RD!Keys
         /\ RD!GetMaskFileName(c) \in MaskFiles \cup {RD!NoneKey, RD!BadName}
         /\ c.motion \in RD!Keys
         /\ c.motion # RD!NoneKey => c.motion \in DgStreams
         /\ RD!TriggeredStream(c) # RD!NoneKey => RD!TriggeredStream(c) \in DgStreams
BY DEF RD!SetUps, RD!Keys, RD!TriggeredStream, RD!GetMaskFileName

(* A selector or a field: what the clone becomes, and the masks that it knows. *)
LEMMA DialogueChanged ==
  ASSUME RD!IInv, NEW c \in RD!SetUps, RD!MasksKnown(c),
         UNCHANGED <<setups, open, uploading, uploaded, reported>>,
         localCamera' = c, dgForm' = RD!FormOf(c)
  PROVE  RD!IInv'
<1>1. RD!MasksKnown(c)'
  BY DEF RD!MasksKnown, RD!Accounted
<1>2. RD!ConfirmedIsComplete'
  BY DEF RD!IInv, RD!ConfirmedIsComplete, RD!Accounted
<1>. QED
  BY <1>1, <1>2 DEF RD!IInv, RD!MasksKnown, RD!ShownIsEdited, RD!Accounted

LEMMA DialogueInit ==
  ASSUME RD!Init
  PROVE  RD!IInv
<1>1. /\ RD!NewSetup \in RD!SetUps
      /\ \A f \in MaskFiles, s \in DgStreams : RD!Masked(f, s) \in RD!SetUps
  BY DEF RD!SetUps, RD!Keys, RD!NewSetup, RD!Masked
<1>2. \A c \in DgCams : setups[c] \in RD!SetUps
  BY <1>1 DEF RD!Init
<1>3. setups \in [DgCams -> RD!SetUps] /\ localCamera \in RD!SetUps
  <2>1. setups \in [DgCams -> {RD!NewSetup} \cup {RD!Masked(f, s) : f \in MaskFiles, s \in DgStreams}]
    BY DEF RD!Init
  <2>. QED  BY <1>1, <2>1 DEF RD!Init
<1>4. RD!MasksKnown(localCamera)
  BY DEF RD!Init, RD!MasksKnown, RD!NewSetup
<1>5. ASSUME NEW c \in DgCams
      PROVE  /\ RD!MasksKnown(setups[c])
             /\ setups[c].type = "motionService" =>
                  /\ setups[c].motion # RD!NoneKey /\ setups[c].streams[setups[c].motion].sized
                  /\ RD!GetMaskFileName(setups[c]) \in uploaded \cup {RD!NoneKey}
             /\ setups[c].type \in {"none", "motionService"}
  <2>1. RD!GetMaskFileName(setups[c]) \in uploaded \cup {RD!NoneKey}
    BY DEF RD!Init
  <2>2. CASE setups[c] = RD!NewSetup
    BY <2>1, <2>2 DEF RD!NewSetup, RD!MasksKnown, RD!Accounted
  <2>3. CASE \E f \in MaskFiles, s \in DgStreams : setups[c] = RD!Masked(f, s)
    <3>1. PICK f \in MaskFiles, s \in DgStreams : setups[c] = RD!Masked(f, s)
      BY <2>3
    <3>. DEFINE k == setups[c]
    <3>2. /\ k.type = "motionService" /\ k.motion = s /\ k.streams[s].sized
          /\ k.streams[s].mask = f
          /\ \A t \in DgStreams \ {s} : k.streams[t].mask = RD!NoneKey
      <4>. DEFINE blank == [mask |-> RD!NoneKey, trigger |-> RD!NoneKey, preamble |-> 0, sized |-> FALSE]
                  st == [blank EXCEPT !.mask = f, !.sized = TRUE]
      <4>1. k.type = "motionService" /\ k.motion = s
        BY <3>1 DEF RD!Masked, RD!NewSetup
      <4>2. k.streams = [[x \in DgStreams |-> blank] EXCEPT ![s] = st]
        BY <3>1 DEF RD!Masked, RD!NewSetup
      <4>3. st.mask = f /\ st.sized /\ blank.mask = RD!NoneKey
        OBVIOUS
      <4>. HIDE DEF st, blank
      <4>4. k.streams[s] = st /\ \A t \in DgStreams \ {s} : k.streams[t] = blank
        BY <4>2
      <4>. QED  BY <4>1, <4>3, <4>4
    <3>3. s # RD!NoneKey
      BY ConfigurationAssumption DEF RD!NoneKey
    <3>. QED  BY <2>1, <3>2, <3>3 DEF RD!MasksKnown, RD!GetMaskFileName, RD!Accounted
  <2>. QED  BY <2>2, <2>3 DEF RD!Init
<1>6. RD!ConfirmedIsComplete
  BY <1>5 DEF RD!ConfirmedIsComplete, RD!Accounted
<1>. QED  BY <1>3, <1>4, <1>5, <1>6 DEF RD!IInv, RD!Init, RD!ShownIsEdited
(* Where a field of one stream of the clone is written. *)
LEMMA StreamChanged ==
  ASSUME NEW c \in RD!SetUps, NEW s \in DgStreams,
         NEW st \in [mask : MaskFiles \cup {RD!NoneKey, RD!BadName}, trigger : RD!Keys,
                     preamble : {0, 1}, sized : BOOLEAN]
  PROVE  LET d == [c EXCEPT !.streams[s] = st] IN
         /\ d \in RD!SetUps
         /\ d.type = c.type /\ d.motion = c.motion /\ d.recording = c.recording
         /\ d.streams = [c.streams EXCEPT ![s] = st]
         /\ d.streams[s] = st
         /\ \A t \in DgStreams \ {s} : d.streams[t] = c.streams[t]
BY DEF RD!SetUps

LEMMA DialogueStep ==
  ASSUME RD!IInv, RD!Next
  PROVE  RD!IInv'
<1>0. /\ uploading \in [MaskFiles -> Nat]
      /\ setups \in [DgCams -> RD!SetUps] /\ localCamera \in RD!SetUps
      /\ open \in DgCams \cup {RD!NoneKey}
      /\ \A c \in DgCams : RD!MasksKnown(setups[c])
      /\ RD!MasksKnown(localCamera)
      /\ RD!ShownIsEdited /\ RD!ConfirmedIsComplete
  BY DEF RD!IInv
<1>. DEFINE OneStream == [mask : MaskFiles \cup {RD!NoneKey, RD!BadName}, trigger : RD!Keys,
                       preamble : {0, 1}, sized : BOOLEAN]
            cam == localCamera
<1>s. \A s \in DgStreams : cam.streams[s] \in OneStream
  BY <1>0 DEF RD!SetUps
<1>m. cam.motion # RD!NoneKey => cam.motion \in DgStreams
  BY <1>0, SetUpFacts
<1>1. CASE RD!ToggleDialogue
  <2>1. PICK c \in DgCams : localCamera' = setups[c] /\ dgForm' = RD!FormOf(setups[c])
                            /\ open' = IF open = c THEN RD!NoneKey ELSE c
    BY <1>1 DEF RD!ToggleDialogue
  <2>2. /\ setups[c] \in RD!SetUps /\ RD!MasksKnown(setups[c]) /\ open' \in DgCams \cup {RD!NoneKey}
        /\ UNCHANGED <<setups, uploading, uploaded, reported>>
    BY <1>0, <1>1, <2>1 DEF RD!ToggleDialogue
  <2>3. RD!ConfirmedIsComplete' /\ RD!ShownIsEdited'
    BY <1>0, <2>1, <2>2 DEF RD!ConfirmedIsComplete, RD!ShownIsEdited, RD!Accounted
  <2>4. (\A d \in DgCams : RD!MasksKnown(setups[d]))' /\ RD!MasksKnown(localCamera)'
    BY <1>0, <2>1, <2>2 DEF RD!MasksKnown, RD!Accounted
  <2>. QED  BY <1>0, <2>1, <2>2, <2>3, <2>4 DEF RD!IInv
<1>2. CASE RD!SetRecordingType
  <2>1. PICK t \in {"none", "motionService", "ftpTriggered", "pullPointEventTriggered"} :
          RD!SetUp([localCamera EXCEPT !.type = t, !.motion = RD!NoneKey, !.recording = RD!NoneKey,
             !.topic = FALSE,
             !.streams = [s \in DgStreams |->
                            [@[s] EXCEPT !.mask = RD!NoneKey, !.trigger = RD!NoneKey]]])
    BY <1>2 DEF RD!SetRecordingType
  <2>. DEFINE sts == [s \in DgStreams |->
                        [cam.streams[s] EXCEPT !.mask = RD!NoneKey, !.trigger = RD!NoneKey]]
              c == [localCamera EXCEPT !.type = t, !.motion = RD!NoneKey,
                      !.recording = RD!NoneKey, !.topic = FALSE, !.streams = sts]
  <2>2. RD!SetUp(c)
    BY <2>1
  <2>3. sts \in [DgStreams -> OneStream] /\ \A s \in DgStreams : sts[s].mask = RD!NoneKey
    BY <1>s DEF RD!Keys
  <2>. HIDE DEF sts
  <2>4. c \in RD!SetUps /\ c.streams = sts
    BY <1>0, <2>3 DEF RD!SetUps, RD!Keys
  <2>5. RD!MasksKnown(c)
    BY <2>3, <2>4 DEF RD!MasksKnown
  <2>. QED  BY <2>2, <2>4, <2>5, DialogueChanged DEF RD!SetUp
<1>3. CASE RD!SetSelectedStream
  <2>1. PICK s \in RD!Keys : RD!SetUp([localCamera EXCEPT !.recording = s])
    BY <1>3 DEF RD!SetSelectedStream, RD!SelectStream, RD!Keys
  <2>. DEFINE c == [localCamera EXCEPT !.recording = s]
  <2>2. c \in RD!SetUps /\ c.streams = cam.streams
    BY <1>0 DEF RD!SetUps, RD!Keys
  <2>3. RD!MasksKnown(c)
    BY <1>0, <2>2 DEF RD!MasksKnown
  <2>. QED  BY <2>1, <2>2, <2>3, DialogueChanged DEF RD!SetUp
<1>4. CASE RD!SetPullPointTopic
  <2>. DEFINE c == [localCamera EXCEPT !.topic = ~@]
  <2>1. RD!Typed(c, dgForm)
    BY <1>4 DEF RD!SetPullPointTopic
  <2>2. c \in RD!SetUps /\ c.streams = cam.streams /\ c.type = cam.type /\ c.motion = cam.motion
        /\ c.recording = cam.recording
    BY <1>0 DEF RD!SetUps
  <2>3. RD!MasksKnown(c) /\ RD!FormOf(c) = RD!FormOf(cam)
    BY <1>0, <2>2 DEF RD!MasksKnown, RD!FormOf, RD!TriggeredStream, RD!GetMaskFileName
  <2>4. dgForm = RD!FormOf(cam)
    BY <1>0, <2>1 DEF RD!Typed, RD!ShownIsEdited
  <2>. QED  BY <2>1, <2>2, <2>3, <2>4, DialogueChanged DEF RD!Typed
<1>5. CASE RD!SetStreamForMotionDetection
  <2>1. PICK s \in RD!Keys : RD!SetUp([localCamera EXCEPT !.motion = s])
    BY <1>5 DEF RD!SetStreamForMotionDetection, RD!Keys
  <2>. DEFINE c == [localCamera EXCEPT !.motion = s]
  <2>2. c \in RD!SetUps /\ c.streams = cam.streams
    BY <1>0 DEF RD!SetUps, RD!Keys
  <2>3. RD!MasksKnown(c)
    BY <1>0, <2>2 DEF RD!MasksKnown
  <2>. QED  BY <2>1, <2>2, <2>3, DialogueChanged DEF RD!SetUp
<1>6. CASE RD!UpdateRecordingTrigger
  <2>1. PICK k \in RD!Keys :
          RD!SetUp([localCamera EXCEPT !.streams =
                [s \in DgStreams |-> [@[s] EXCEPT !.trigger =
                   IF s = localCamera.motion THEN k ELSE RD!NoneKey]]])
    BY <1>6 DEF RD!UpdateRecordingTrigger, RD!Keys
  <2>. DEFINE sts == [s \in DgStreams |-> [cam.streams[s] EXCEPT !.trigger =
                        IF s = localCamera.motion THEN k ELSE RD!NoneKey]]
              c == [localCamera EXCEPT !.streams = sts]
  <2>2. RD!SetUp(c)
    BY <2>1
  <2>3. sts \in [DgStreams -> OneStream] /\ \A s \in DgStreams : sts[s].mask = cam.streams[s].mask
    BY <1>s DEF RD!Keys
  <2>. HIDE DEF sts
  <2>4. c \in RD!SetUps /\ c.streams = sts
    BY <1>0, <2>3 DEF RD!SetUps
  <2>5. RD!MasksKnown(c)
    BY <1>0, <2>3, <2>4 DEF RD!MasksKnown
  <2>. QED  BY <2>2, <2>4, <2>5, DialogueChanged DEF RD!SetUp
<1>7. CASE RD!UpdatePreambleTime
  <2>. DEFINE s == RD!TriggeredStream(cam)
              v == 1 - dgForm.preamble
              st == [cam.streams[s] EXCEPT !.preamble = v]
              c == [localCamera EXCEPT !.streams[s] = st]
  <2>1. RD!Typed([localCamera EXCEPT !.streams[s].preamble = v],
                 [dgForm EXCEPT !.preamble = v]) /\ s # RD!NoneKey
    BY <1>7 DEF RD!UpdatePreambleTime, RD!PreambleDisabled
  <2>2. open # RD!NoneKey /\ dgForm = RD!FormOf(cam) /\ s \in DgStreams
    BY <1>0, <2>1, SetUpFacts DEF RD!Typed, RD!ShownIsEdited
  <2>3. dgForm.preamble = cam.streams[s].preamble /\ v \in {0, 1}
    BY <1>s, <2>1, <2>2 DEF RD!FormOf
  <2>4. /\ st \in OneStream /\ st.preamble = v
        /\ st.mask = cam.streams[s].mask /\ st.trigger = cam.streams[s].trigger
        /\ st.sized = cam.streams[s].sized
    BY <1>s, <2>2, <2>3
  <2>5. [localCamera EXCEPT !.streams[s].preamble = v] = c
    BY <1>0, <2>2 DEF RD!SetUps
  <2>. HIDE DEF v, st, s
  <2>6. /\ c \in RD!SetUps
        /\ c.type = cam.type /\ c.motion = cam.motion /\ c.recording = cam.recording
        /\ c.streams[s] = st
        /\ \A t \in DgStreams \ {s} : c.streams[t] = cam.streams[t]
    BY <1>0, <2>2, <2>4, StreamChanged
  <2>. HIDE DEF c
  <2>7. RD!MasksKnown(c)
    BY <1>0, <2>2, <2>4, <2>6 DEF RD!MasksKnown
  <2>8. RD!TriggeredStream(c) = s /\ RD!GetMaskFileName(c) = RD!GetMaskFileName(cam)
    BY <1>m, <2>4, <2>6 DEF RD!TriggeredStream, RD!GetMaskFileName, s
  <2>9. c.motion # RD!NoneKey => c.streams[c.motion].sized = cam.streams[cam.motion].sized
    BY <1>m, <2>4, <2>6
  <2>10. [dgForm EXCEPT !.preamble = v] = RD!FormOf(c)
    BY <2>1, <2>2, <2>4, <2>6, <2>8, <2>9 DEF RD!FormOf
  <2>. QED  BY <2>1, <2>5, <2>6, <2>7, <2>10, DialogueChanged DEF RD!Typed
<1>8. CASE RD!UpdateVideoSize
  <2>. DEFINE s == cam.motion
              st == [cam.streams[s] EXCEPT !.sized = ~dgForm.sized]
              c == [localCamera EXCEPT !.streams[s] = st]
  <2>1. RD!Typed([localCamera EXCEPT !.streams[s].sized = ~dgForm.sized],
                 [dgForm EXCEPT !.sized = ~@]) /\ s # RD!NoneKey
    BY <1>8 DEF RD!UpdateVideoSize
  <2>2. open # RD!NoneKey /\ dgForm = RD!FormOf(cam) /\ s \in DgStreams
    BY <1>0, <1>m, <2>1 DEF RD!Typed, RD!ShownIsEdited
  <2>4. /\ st \in OneStream /\ st.sized = ~dgForm.sized
        /\ st.mask = cam.streams[s].mask /\ st.trigger = cam.streams[s].trigger
        /\ st.preamble = cam.streams[s].preamble
    BY <1>s, <2>2
  <2>5. [localCamera EXCEPT !.streams[s].sized = ~dgForm.sized] = c
    BY <1>0, <2>2 DEF RD!SetUps
  <2>. HIDE DEF st, s
  <2>6. /\ c \in RD!SetUps
        /\ c.type = cam.type /\ c.motion = cam.motion /\ c.recording = cam.recording
        /\ c.streams[s] = st
        /\ \A t \in DgStreams \ {s} : c.streams[t] = cam.streams[t]
    BY <1>0, <2>2, <2>4, StreamChanged
  <2>. HIDE DEF c
  <2>7. RD!MasksKnown(c)
    BY <1>0, <2>2, <2>4, <2>6 DEF RD!MasksKnown
  <2>8. /\ RD!TriggeredStream(c) = RD!TriggeredStream(cam)
        /\ RD!GetMaskFileName(c) = RD!GetMaskFileName(cam)
    BY <1>m, <2>4, <2>6 DEF RD!TriggeredStream, RD!GetMaskFileName
  <2>9. RD!TriggeredStream(c) # RD!NoneKey =>
          c.streams[RD!TriggeredStream(c)].preamble = cam.streams[RD!TriggeredStream(cam)].preamble
    BY <1>0, <2>4, <2>6, <2>8, SetUpFacts
  <2>10. c.motion = s /\ c.streams[c.motion].sized = ~dgForm.sized
    BY <2>4, <2>6 DEF s
  <2>11. [dgForm EXCEPT !.sized = ~@] = RD!FormOf(c)
    <3>1. RD!FormOf(c).preamble = dgForm.preamble /\ RD!FormOf(c).mask = dgForm.mask
      BY <2>2, <2>8, <2>9 DEF RD!FormOf
    <3>2. (c.motion # RD!NoneKey /\ c.streams[c.motion].sized) = ~dgForm.sized
      BY <2>1, <2>10, Zenon
    <3>3. RD!FormOf(c).sized = ~dgForm.sized
      <4>1. RD!FormOf(c).sized = (c.motion # RD!NoneKey /\ c.streams[c.motion].sized)
        BY DEF RD!FormOf
      <4>. QED  BY <3>2, <4>1, Zenon
    <3>4. /\ [dgForm EXCEPT !.sized = ~@] =
               [preamble |-> dgForm.preamble, mask |-> dgForm.mask, sized |-> ~dgForm.sized]
          /\ RD!FormOf(c) = [preamble |-> RD!FormOf(c).preamble, mask |-> RD!FormOf(c).mask,
                              sized |-> RD!FormOf(c).sized]
      BY <2>2 DEF RD!FormOf
    <3>. QED  BY <3>1, <3>3, <3>4, Zenon
  <2>. QED  BY <2>1, <2>5, <2>6, <2>7, <2>11, DialogueChanged DEF RD!Typed
<1>9. CASE RD!UpdateSimpleItem
  <2>. DEFINE c == [localCamera EXCEPT !.items = ~@]
  <2>1. RD!Typed(c, dgForm)
    BY <1>9 DEF RD!UpdateSimpleItem
  <2>2. c \in RD!SetUps /\ c.streams = cam.streams /\ c.type = cam.type /\ c.motion = cam.motion
        /\ c.recording = cam.recording
    BY <1>0 DEF RD!SetUps
  <2>3. RD!MasksKnown(c) /\ RD!FormOf(c) = RD!FormOf(cam)
    BY <1>0, <2>2 DEF RD!MasksKnown, RD!FormOf, RD!TriggeredStream, RD!GetMaskFileName
  <2>4. dgForm = RD!FormOf(cam)
    BY <1>0, <2>1 DEF RD!Typed, RD!ShownIsEdited
  <2>. QED  BY <2>1, <2>2, <2>3, <2>4, DialogueChanged DEF RD!Typed
<1>10. CASE RD!UploadMaskFile
  <2>. DEFINE s == cam.motion
  <2>1. PICK f \in MaskFiles \cup {RD!BadName} :
          LET c == [localCamera EXCEPT !.streams[s].mask = f] IN
          IF RD!CheckForMaskFileReUse([d \in {open} |-> c])
          THEN /\ localCamera' = [c EXCEPT !.streams[c.motion].mask = RD!NoneKey]
               /\ UNCHANGED <<dgForm, uploading, reported>>
          ELSE /\ localCamera' = c
               /\ dgForm' = [dgForm EXCEPT !.mask = f]
               /\ IF RD!IsValidMaskFileName(f)
                  THEN uploading' = [uploading EXCEPT ![f] = @ + 1] /\ UNCHANGED reported
                  ELSE reported' = reported \cup ({f} \ {RD!BadName}) /\ UNCHANGED uploading
    BY <1>10 DEF RD!UploadMaskFile
  <2>. DEFINE st == [cam.streams[s] EXCEPT !.mask = f]
              c == [localCamera EXCEPT !.streams[s] = st]
  <2>2. /\ open # RD!NoneKey /\ s # RD!NoneKey /\ UNCHANGED <<setups, open, uploaded>>
        /\ dgForm = RD!FormOf(cam) /\ s \in DgStreams
    BY <1>0, <1>m, <1>10 DEF RD!UploadMaskFile, RD!ShownIsEdited
  <2>3. [localCamera EXCEPT !.streams[s].mask = f] = c
    BY <1>0, <2>2 DEF RD!SetUps
  <2>4. ~RD!CheckForMaskFileReUse([d \in {open} |-> c])
    BY DEF RD!CheckForMaskFileReUse
  <2>5. /\ st \in OneStream /\ st.mask = f
        /\ st.sized = cam.streams[s].sized /\ st.trigger = cam.streams[s].trigger
        /\ st.preamble = cam.streams[s].preamble
    BY <1>s, <2>2
  <2>6. /\ localCamera' = c /\ dgForm' = [dgForm EXCEPT !.mask = f]
        /\ uploading' \in [MaskFiles -> Nat]
        /\ RD!Accounted \subseteq RD!Accounted'
        /\ f \in RD!Accounted' \cup {RD!BadName}
    <3>. HIDE DEF c, st
    <3>1. /\ localCamera' = c /\ dgForm' = [dgForm EXCEPT !.mask = f]
          /\ IF RD!IsValidMaskFileName(f)
             THEN uploading' = [uploading EXCEPT ![f] = @ + 1] /\ UNCHANGED reported
             ELSE reported' = reported \cup ({f} \ {RD!BadName}) /\ UNCHANGED uploading
      BY <2>1, <2>3, <2>4
    <3>2. CASE RD!IsValidMaskFileName(f)
      <4>1. f \in MaskFiles
        BY <3>2, ConfigurationAssumption
        DEF RD!IsValidMaskFileName, RD!NoneKey, RD!BadName
      <4>2. /\ uploading' \in [MaskFiles -> Nat] /\ uploading'[f] > 0
            /\ \A g \in MaskFiles : uploading[g] > 0 => uploading'[g] > 0
        BY <1>0, <3>1, <3>2, <4>1
      <4>. QED  BY <2>2, <3>1, <3>2, <4>1, <4>2 DEF RD!Accounted
    <3>3. CASE ~RD!IsValidMaskFileName(f)
      BY <1>0, <2>2, <3>1, <3>3 DEF RD!Accounted
    <3>. QED  BY <3>1, <3>2, <3>3
  <2>. HIDE DEF st, s
  <2>7. /\ c \in RD!SetUps
        /\ c.type = cam.type /\ c.motion = cam.motion /\ c.recording = cam.recording
        /\ c.streams[s] = st
        /\ \A t \in DgStreams \ {s} : c.streams[t] = cam.streams[t]
    BY <1>0, <2>2, <2>5, StreamChanged
  <2>. HIDE DEF c
  <2>8. RD!MasksKnown(localCamera)'
    <3>. SUFFICES ASSUME NEW t \in DgStreams
                  PROVE  c.streams[t].mask \in
                           RD!Accounted' \cup {RD!NoneKey, RD!BadName}
      BY <2>6 DEF RD!MasksKnown
    <3>1. CASE t = s
      BY <2>5, <2>6, <2>7, <3>1
    <3>2. CASE t # s
      BY <1>0, <2>6, <2>7, <3>2 DEF RD!MasksKnown
    <3>. QED  BY <3>1, <3>2
  <2>9. (\A d \in DgCams : RD!MasksKnown(setups[d]))'
    BY <1>0, <2>2, <2>6 DEF RD!MasksKnown
  <2>10. RD!ConfirmedIsComplete'
    BY <1>0, <2>2, <2>6 DEF RD!ConfirmedIsComplete
  <2>11. RD!FormOf(c) = [dgForm EXCEPT !.mask = f]
    <3>1. /\ RD!TriggeredStream(c) = RD!TriggeredStream(cam)
          /\ RD!GetMaskFileName(c) = f
      BY <1>m, <2>2, <2>5, <2>7 DEF RD!TriggeredStream, RD!GetMaskFileName, s
    <3>2. RD!TriggeredStream(c) # RD!NoneKey =>
            c.streams[RD!TriggeredStream(c)].preamble = cam.streams[RD!TriggeredStream(cam)].preamble
      BY <1>0, <2>5, <2>7, <3>1, SetUpFacts
    <3>3. c.streams[c.motion].sized = cam.streams[cam.motion].sized
      BY <2>2, <2>5, <2>7 DEF s
    <3>. QED  BY <2>2, <2>7, <3>1, <3>2, <3>3 DEF RD!FormOf
  <2>12. RD!ShownIsEdited'
    BY <2>6, <2>11 DEF RD!ShownIsEdited
  <2>. QED  BY <1>0, <2>2, <2>6, <2>7, <2>8, <2>9, <2>10, <2>12 DEF RD!IInv
<1>11. CASE RD!ClearMaskFile
  <2>. DEFINE s == cam.motion
              st == [cam.streams[s] EXCEPT !.mask = RD!NoneKey]
              c == [localCamera EXCEPT !.streams[s] = st]
  <2>1. RD!Typed([localCamera EXCEPT !.streams[s].mask = RD!NoneKey],
                 [dgForm EXCEPT !.mask = RD!NoneKey]) /\ s # RD!NoneKey
    BY <1>11 DEF RD!ClearMaskFile
  <2>2. open # RD!NoneKey /\ dgForm = RD!FormOf(cam) /\ s \in DgStreams
    BY <1>0, <1>m, <2>1 DEF RD!Typed, RD!ShownIsEdited
  <2>4. /\ st \in OneStream /\ st.mask = RD!NoneKey
        /\ st.sized = cam.streams[s].sized /\ st.trigger = cam.streams[s].trigger
        /\ st.preamble = cam.streams[s].preamble
    BY <1>s, <2>2
  <2>5. [localCamera EXCEPT !.streams[s].mask = RD!NoneKey] = c
    BY <1>0, <2>2 DEF RD!SetUps
  <2>. HIDE DEF st, s
  <2>6. /\ c \in RD!SetUps
        /\ c.type = cam.type /\ c.motion = cam.motion /\ c.recording = cam.recording
        /\ c.streams[s] = st
        /\ \A t \in DgStreams \ {s} : c.streams[t] = cam.streams[t]
    BY <1>0, <2>2, <2>4, StreamChanged
  <2>. HIDE DEF c
  <2>7. RD!MasksKnown(c)
    BY <1>0, <2>2, <2>4, <2>6 DEF RD!MasksKnown
  <2>8. RD!FormOf(c) = [dgForm EXCEPT !.mask = RD!NoneKey]
    <3>1. /\ RD!TriggeredStream(c) = RD!TriggeredStream(cam)
          /\ RD!GetMaskFileName(c) = RD!NoneKey
      BY <1>m, <2>2, <2>4, <2>6 DEF RD!TriggeredStream, RD!GetMaskFileName, s
    <3>2. RD!TriggeredStream(c) # RD!NoneKey =>
            c.streams[RD!TriggeredStream(c)].preamble = cam.streams[RD!TriggeredStream(cam)].preamble
      BY <1>0, <2>4, <2>6, <3>1, SetUpFacts
    <3>3. c.streams[c.motion].sized = cam.streams[cam.motion].sized
      BY <2>2, <2>4, <2>6 DEF s
    <3>. QED  BY <2>2, <2>6, <3>1, <3>2, <3>3 DEF RD!FormOf
  <2>. QED  BY <2>1, <2>5, <2>6, <2>7, <2>8, DialogueChanged DEF RD!Typed
<1>12. CASE RD!ConfirmChanges
  <2>1. /\ open # RD!NoneKey /\ open \in DgCams /\ ~RD!ConfirmDisabled
        /\ setups' = [setups EXCEPT ![open] = cam] /\ open' = RD!NoneKey
        /\ UNCHANGED <<localCamera, dgForm, uploading, uploaded, reported>>
    BY <1>0, <1>12 DEF RD!ConfirmChanges
  <2>2. dgForm = RD!FormOf(cam)
    BY <1>0, <2>1 DEF RD!ShownIsEdited
  <2>3. /\ cam.type = "motionService" =>
             /\ cam.motion # RD!NoneKey /\ cam.streams[cam.motion].sized
             /\ RD!GetMaskFileName(cam) \in RD!Accounted \cup {RD!NoneKey}
        /\ cam.type \in {"ftpTriggered", "pullPointEventTriggered"} => cam.recording # RD!NoneKey
        /\ cam.type = "pullPointEventTriggered" => cam.items
    <3>1. CASE cam.type = "motionService"
      <4>1. cam.motion # RD!NoneKey /\ dgForm.sized /\ RD!IsValidMaskFileName(dgForm.mask)
        BY <2>1, <3>1 DEF RD!ConfirmDisabled, RD!DgAnyInvalid
      <4>2. dgForm.mask = RD!GetMaskFileName(cam) /\ cam.streams[cam.motion].sized
        BY <2>2, <4>1 DEF RD!FormOf
      <4>3. RD!GetMaskFileName(cam) # RD!BadName
        BY <4>1, <4>2 DEF RD!IsValidMaskFileName, RD!NoneKey, RD!BadName
      <4>4. RD!GetMaskFileName(cam) \in RD!Accounted \cup {RD!NoneKey, RD!BadName}
        BY <1>0, <1>m, <4>1 DEF RD!MasksKnown, RD!GetMaskFileName
      <4>. QED  BY <3>1, <4>1, <4>2, <4>3, <4>4
    <3>2. CASE cam.type # "motionService"
      BY <2>1, <3>2 DEF RD!ConfirmDisabled, RD!DgAnyInvalid
    <3>. QED  BY <3>1, <3>2
  <2>4. /\ setups' \in [DgCams -> RD!SetUps]
        /\ \A d \in DgCams : setups'[d] = IF d = open THEN cam ELSE setups[d]
    BY <1>0, <2>1
  <2>5. (\A d \in DgCams : RD!MasksKnown(setups[d]))' /\ RD!MasksKnown(localCamera)'
    BY <1>0, <2>1, <2>4 DEF RD!MasksKnown, RD!Accounted
  <2>6. RD!ConfirmedIsComplete'
    <3>. SUFFICES ASSUME NEW d \in DgCams
                  PROVE  LET k == setups'[d] IN
                    /\ k.type = "motionService" =>
                         /\ k.motion # RD!NoneKey /\ k.streams[k.motion].sized
                         /\ RD!GetMaskFileName(k) \in RD!Accounted \cup {RD!NoneKey}
                    /\ k.type \in {"ftpTriggered", "pullPointEventTriggered"} =>
                         k.recording # RD!NoneKey
                    /\ k.type = "pullPointEventTriggered" => k.items
      BY <2>1 DEF RD!ConfirmedIsComplete, RD!GetMaskFileName, RD!Accounted
    <3>1. CASE d = open
      BY <2>3, <2>4, <3>1, Zenon
    <3>2. CASE d # open
      BY <1>0, <2>4, <3>2 DEF RD!ConfirmedIsComplete
    <3>. QED  BY <3>1, <3>2
  <2>7. RD!ShownIsEdited'
    BY <2>1 DEF RD!ShownIsEdited
  <2>. QED  BY <1>0, <2>1, <2>4, <2>5, <2>6, <2>7 DEF RD!IInv
<1>13. CASE RD!UploadDone \/ RD!UploadFailed
  <2>1. PICK f \in MaskFiles : /\ RD!Uploaded(f)
                              /\ \/ uploaded' = uploaded \cup {f} /\ UNCHANGED reported
                                 \/ reported' = reported \cup {f} /\ UNCHANGED uploaded
    BY <1>13 DEF RD!UploadDone, RD!UploadFailed
  <2>2. /\ uploading' \in [MaskFiles -> Nat]
        /\ \A g \in MaskFiles \ {f} : uploading'[g] = uploading[g]
        /\ UNCHANGED <<setups, open, localCamera, dgForm>>
    BY <1>0, <2>1 DEF RD!Uploaded
  <2>3. RD!Accounted \subseteq RD!Accounted'
    BY <2>1, <2>2 DEF RD!Accounted
  <2>4. (\A d \in DgCams : RD!MasksKnown(setups[d]))' /\ RD!MasksKnown(localCamera)'
    BY <1>0, <2>2, <2>3 DEF RD!MasksKnown
  <2>5. RD!ConfirmedIsComplete' /\ RD!ShownIsEdited'
    BY <1>0, <2>2, <2>3 DEF RD!ConfirmedIsComplete, RD!ShownIsEdited
  <2>. QED  BY <1>0, <2>2, <2>4, <2>5 DEF RD!IInv
<1>. QED
  BY <1>1, <1>2, <1>3, <1>4, <1>5, <1>6, <1>7, <1>8, <1>9, <1>10, <1>11, <1>12, <1>13
  DEF RD!Next

LEMMA DialogueStutter ==
  ASSUME RD!IInv, UNCHANGED dgVars
  PROVE  RD!IInv'
BY DEF dgVars, RD!IInv, RD!MasksKnown, RD!ShownIsEdited, RD!ConfirmedIsComplete, RD!Accounted

-----------------------------------------------------------------------------
(* ConfigSetup: the cameras of a table. *)

LEMMA CameraFacts ==
  ASSUME NEW c \in Camera
  PROVE  /\ c.streams \in Seq(Stream) /\ Len(c.streams) \in Nat
         /\ DOMAIN c.streams = 1 .. Len(c.streams)
         /\ \A i \in 1 .. Len(c.streams) : c.streams[i] \in Stream
         /\ c.type \in Types \cup {"none"} /\ c.recordingStream \in Nat
<1>1. c.streams \in Seq(Stream)
  BY DEF Camera
<1>2. /\ Len(c.streams) \in Nat /\ DOMAIN c.streams = 1 .. Len(c.streams)
      /\ \A i \in 1 .. Len(c.streams) : c.streams[i] \in Stream
  <2>. DEFINE s == c.streams
  <2>1. s \in Seq(Stream)
    BY <1>1
  <2>. HIDE DEF s
  <2>2. Len(s) \in Nat /\ DOMAIN s = 1 .. Len(s) /\ \A i \in 1 .. Len(s) : s[i] \in Stream
    BY <2>1, LenProperties, ElementOfSeq
  <2>. QED  BY <2>2 DEF s
<1>. QED  BY <1>1, <1>2 DEF Camera

(* A camera with other streams, and one of a table. *)
LEMMA WithStreams ==
  ASSUME NEW c \in Camera, NEW ss \in Seq(Stream)
  PROVE  LET d == [c EXCEPT !.streams = ss] IN
         /\ d \in Camera /\ d.streams = ss
         /\ d.type = c.type /\ d.recordingStream = c.recordingStream
         /\ d.motionStream = c.motionStream /\ d.topic = c.topic /\ d.valid = c.valid
BY DEF Camera

LEMMA FunctionIsSeq ==
  ASSUME NEW S, NEW n \in Nat, NEW f \in [1 .. n -> S]
  PROVE  f \in Seq(S) /\ Len(f) = n /\ DOMAIN f = 1 .. n
<1>1. f \in Seq(S)
  BY DEF Seq
<1>. QED  BY <1>1, LenProperties, SMT

(***************************************************************************)
(* How many streams there are before a camera: those of an earlier camera  *)
(* are among them, and so are as many more as it has.                      *)
(***************************************************************************)
LEMMA StreamsAreFinite ==
  ASSUME NEW cs \in Seq(Camera), NEW n \in 1 .. Len(cs) + 1
  PROVE  IsFiniteSet(StreamsBefore(cs, n)) /\ Cardinality(StreamsBefore(cs, n)) \in Nat
<1>. DEFINE Of(m) == {m} \X DOMAIN cs[m].streams
            T == {Of(m) : m \in 1 .. n - 1}
            f == [m \in 1 .. n - 1 |-> Of(m)]
<1>1. Len(cs) \in Nat /\ \A m \in 1 .. n - 1 : cs[m] \in Camera
  BY LenProperties, ElementOfSeq
<1>2. IsFiniteSet(1 .. n - 1)
  BY <1>1, FS_Interval
<1>3. f \in Surjection(1 .. n - 1, T)
  BY DEF Surjection
<1>4. IsFiniteSet(T)
  BY <1>2, <1>3, FS_Surjection
<1>5. \A m \in 1 .. n - 1 : IsFiniteSet(Of(m))
  <2>. SUFFICES ASSUME NEW m \in 1 .. n - 1
                PROVE  IsFiniteSet(Of(m))
    OBVIOUS
  <2>1. IsFiniteSet({m})
    BY FS_Singleton
  <2>2. IsFiniteSet(DOMAIN cs[m].streams)
    <3>. DEFINE l == Len(cs[m].streams)
    <3>1. l \in Int /\ 1 \in Int /\ DOMAIN cs[m].streams = 1 .. l
      BY <1>1, CameraFacts
    <3>. HIDE DEF l
    <3>2. IsFiniteSet(1 .. l)
      BY <3>1, FS_Interval
    <3>. QED  BY <3>1, <3>2
  <2>. QED  BY <2>1, <2>2, FS_Product
<1>6. \A U \in T : IsFiniteSet(U)
  BY <1>5
<1>7. IsFiniteSet(UNION T)
  BY <1>4, <1>6, FS_UNION
<1>8. StreamsBefore(cs, n) = UNION T
  BY DEF StreamsBefore
<1>. QED  BY <1>7, <1>8, FS_CardinalityType

LEMMA StreamsAdd ==
  ASSUME NEW cs \in Seq(Camera), NEW m \in 1 .. Len(cs), NEW n \in m + 1 .. Len(cs) + 1
  PROVE  Cardinality(StreamsBefore(cs, m)) + Len(cs[m].streams)
           <= Cardinality(StreamsBefore(cs, n))
<1>. DEFINE Own == {m} \X DOMAIN cs[m].streams
            l == Len(cs[m].streams)
<1>1. /\ Len(cs) \in Nat /\ cs[m] \in Camera /\ m \in Int
      /\ m \in 1 .. Len(cs) + 1 /\ n \in 1 .. Len(cs) + 1 /\ n - 1 >= m
  BY LenProperties, ElementOfSeq
<1>2. l \in Nat /\ DOMAIN cs[m].streams = 1 .. l
  BY <1>1, CameraFacts
<1>3. IsFiniteSet(Own) /\ Cardinality(Own) = l
  <2>. HIDE DEF l
  <2>1. IsFiniteSet({m}) /\ Cardinality({m}) = 1
    BY FS_Singleton
  <2>2. IsFiniteSet(1 .. l) /\ Cardinality(1 .. l) = l
    <3>1. 1 \in Int /\ l \in Int
      BY <1>2
    <3>2. IsFiniteSet(1 .. l) /\ Cardinality(1 .. l) = IF 1 > l THEN 0 ELSE l - 1 + 1
      BY <3>1, FS_Interval
    <3>. QED  BY <1>2, <3>2
  <2>3. IsFiniteSet(Own) /\ Cardinality(Own) = 1 * l
    <3>1. IsFiniteSet({m} \X (1 .. l))
          /\ Cardinality({m} \X (1 .. l)) = Cardinality({m}) * Cardinality(1 .. l)
      BY <2>1, <2>2, FS_Product
    <3>2. Own = {m} \X (1 .. l)
      BY <1>2
    <3>. QED  BY <2>1, <2>2, <3>1, <3>2
  <2>. QED  BY <1>2, <2>3
<1>4. /\ IsFiniteSet(StreamsBefore(cs, m)) /\ Cardinality(StreamsBefore(cs, m)) \in Nat
      /\ IsFiniteSet(StreamsBefore(cs, n)) /\ Cardinality(StreamsBefore(cs, n)) \in Nat
  BY <1>1, StreamsAreFinite
<1>5. StreamsBefore(cs, m) \cap Own = {}
  <2>. SUFFICES ASSUME NEW r \in StreamsBefore(cs, m), r \in Own
                PROVE  FALSE
    OBVIOUS
  <2>1. PICK k \in 1 .. m - 1 : r \in {k} \X DOMAIN cs[k].streams
    BY DEF StreamsBefore
  <2>2. r[1] = k /\ r[1] = m
    BY <2>1
  <2>. QED  BY <1>1, <2>1, <2>2
<1>6. StreamsBefore(cs, m) \cup Own \subseteq StreamsBefore(cs, n)
  <2>1. \A k \in 1 .. m - 1 : k \in 1 .. n - 1
    BY <1>1
  <2>2. m \in 1 .. n - 1
    BY <1>1
  <2>. QED  BY <2>1, <2>2 DEF StreamsBefore
<1>7. /\ IsFiniteSet(StreamsBefore(cs, m) \cup Own)
      /\ Cardinality(StreamsBefore(cs, m) \cup Own) =
           Cardinality(StreamsBefore(cs, m)) + Cardinality(Own) - Cardinality({})
  BY <1>3, <1>4, <1>5, FS_Union
<1>8. Cardinality(StreamsBefore(cs, m) \cup Own) <= Cardinality(StreamsBefore(cs, n))
  BY <1>4, <1>6, FS_Subset
<1>. HIDE DEF l
<1>. QED  BY <1>2, <1>3, <1>4, <1>7, <1>8, FS_EmptySet

(***************************************************************************)
(* FixUpCamera, of one stream: whether it records, is watched, or is       *)
(* recorded by one that is watched, and what its recording becomes.        *)
(***************************************************************************)
RecordsIn(c, i) == c.recordingStream # NoKey /\ c.recordingStream = c.streams[i].key
DetectsIn(c, i) == ~RecordsIn(c, i) /\ c.streams[i].motion
TriggersIn(c, j, i) == DetectsIn(c, j) /\ c.streams[j].trigger = c.streams[i].key
Works(c, i) ==
  RecordsIn(c, i) \/ DetectsIn(c, i) \/ \E j \in DOMAIN c.streams : TriggersIn(c, j, i)
NumberIn(c, i) ==
  IF (RecordsIn(c, i) \/ DetectsIn(c, i))
     /\ ~\E j \in DOMAIN c.streams : j > i /\ TriggersIn(c, j, i)
  THEN i ELSE c.streams[i].key
RecIn(c, n, first, i) ==
  IF Works(c, i) THEN [on |-> TRUE, src |-> <<n, NumberIn(c, i)>>, loc |-> first + i - 1]
  ELSE [c.streams[i].rec EXCEPT !.on = FALSE]
FixedUpStream(c, n, first, i) ==
  [c.streams[i] EXCEPT !.key = i, !.rec = RecIn(c, n, first, i),
                       !.trigger = IF RecordsIn(c, i) THEN NoKey ELSE @]

LEMMA FixUpCameraIs ==
  ASSUME NEW c, NEW n, NEW first
  PROVE  FixUpCamera(c, n, first) =
           [c EXCEPT !.streams = [i \in DOMAIN c.streams |-> FixedUpStream(c, n, first, i)]]
BY DEF FixUpCamera, FixedUpStream, RecIn, NumberIn, Works, TriggersIn, DetectsIn, RecordsIn

LEMMA FixedUpStreamFacts ==
  ASSUME NEW c \in Camera, NEW n \in Nat, NEW first \in Nat, NEW i \in DOMAIN c.streams
  PROVE  LET s == FixedUpStream(c, n, first, i) IN
         /\ s \in Stream
         /\ s.key = i /\ s.default = c.streams[i].default /\ s.motion = c.streams[i].motion
         /\ s.trigger = IF RecordsIn(c, i) THEN NoKey ELSE c.streams[i].trigger
         /\ s.rec = RecIn(c, n, first, i)
<1>1. /\ i \in Nat \ {0} /\ c.streams[i] \in Stream
  BY CameraFacts
<1>2. NumberIn(c, i) \in Nat
  BY <1>1 DEF NumberIn, Stream
<1>3. first + i - 1 \in Nat
  BY <1>1
<1>4. c.streams[i].rec \in [on : BOOLEAN, src : Nat \X Nat, loc : Nat]
  BY <1>1 DEF Stream
<1>. HIDE DEF Works, NumberIn
<1>5. RecIn(c, n, first, i) \in [on : BOOLEAN, src : Nat \X Nat, loc : Nat]
  <2>. DEFINE k == NumberIn(c, i)
              l == first + i - 1
              old == c.streams[i].rec
  <2>1. k \in Nat /\ l \in Nat /\ old \in [on : BOOLEAN, src : Nat \X Nat, loc : Nat]
    BY <1>2, <1>3, <1>4
  <2>2. RecIn(c, n, first, i) = IF Works(c, i) THEN [on |-> TRUE, src |-> <<n, k>>, loc |-> l]
                                ELSE [old EXCEPT !.on = FALSE]
    BY DEF RecIn
  <2>. HIDE DEF k, l, old
  <2>3. [on |-> TRUE, src |-> <<n, k>>, loc |-> l] \in [on : BOOLEAN, src : Nat \X Nat, loc : Nat]
    BY <2>1
  <2>4. [old EXCEPT !.on = FALSE] \in [on : BOOLEAN, src : Nat \X Nat, loc : Nat]
    BY <2>1
  <2>. QED  BY <2>2, <2>3, <2>4, Zenon
<1>. DEFINE old == c.streams[i]
            rec == RecIn(c, n, first, i)
            t == IF RecordsIn(c, i) THEN NoKey ELSE old.trigger
<1>6. t \in Nat
  BY <1>1 DEF Stream, NoKey
<1>7. FixedUpStream(c, n, first, i) = [old EXCEPT !.key = i, !.rec = rec, !.trigger = t]
  BY DEF FixedUpStream
<1>8. old \in Stream /\ rec \in [on : BOOLEAN, src : Nat \X Nat, loc : Nat]
  BY <1>1, <1>5
<1>. HIDE DEF old, rec, t
<1>9. LET s == [old EXCEPT !.key = i, !.rec = rec, !.trigger = t] IN
      /\ s \in Stream /\ s.key = i /\ s.default = old.default /\ s.motion = old.motion
      /\ s.trigger = t /\ s.rec = rec
  BY <1>1, <1>6, <1>8 DEF Stream
<1>. QED  BY <1>7, <1>9 DEF old, rec, t

(* What it leaves: a camera whose keys are in their places. *)
LEMMA FixUpCameraFacts ==
  ASSUME NEW c \in Camera, NEW n \in Nat, NEW first \in Nat
  PROVE  LET d == FixUpCamera(c, n, first) IN
         /\ d \in Camera /\ Numbered(d)
         /\ d.type = c.type /\ d.recordingStream = c.recordingStream
         /\ Len(d.streams) = Len(c.streams) /\ DOMAIN d.streams = DOMAIN c.streams
         /\ \A i \in DOMAIN c.streams : d.streams[i] = FixedUpStream(c, n, first, i)
         /\ QuietUnlessSetUp(c) => QuietUnlessSetUp(d)
         /\ HasOneDefault(c) => HasOneDefault(d)
<1>. DEFINE ss == [i \in DOMAIN c.streams |-> FixedUpStream(c, n, first, i)]
            d == FixUpCamera(c, n, first)
            l == Len(c.streams)
<1>1. l \in Nat /\ DOMAIN c.streams = 1 .. l
  BY CameraFacts
<1>2. /\ \A i \in 1 .. l : FixedUpStream(c, n, first, i) \in Stream
      /\ \A i \in 1 .. l :
           /\ FixedUpStream(c, n, first, i).key = i
           /\ FixedUpStream(c, n, first, i).default = c.streams[i].default
           /\ FixedUpStream(c, n, first, i).motion = c.streams[i].motion
  BY <1>1, FixedUpStreamFacts
<1>. HIDE DEF l
<1>3. ss \in [1 .. l -> Stream]
  BY <1>1, <1>2
<1>4. ss \in Seq(Stream) /\ Len(ss) = l /\ DOMAIN ss = 1 .. l
  BY <1>1, <1>3, FunctionIsSeq
<1>5. d = [c EXCEPT !.streams = ss]
  BY FixUpCameraIs
<1>6. \A i \in 1 .. l : ss[i] = FixedUpStream(c, n, first, i)
  BY <1>1
<1>. HIDE DEF ss, d
<1>7. /\ d \in Camera /\ d.streams = ss /\ d.type = c.type
      /\ d.recordingStream = c.recordingStream
  BY <1>4, <1>5, WithStreams
<1>8. Numbered(d)
  BY <1>2, <1>4, <1>6, <1>7 DEF Numbered
<1>9. QuietUnlessSetUp(c) => QuietUnlessSetUp(d)
  BY <1>1, <1>2, <1>4, <1>6, <1>7 DEF QuietUnlessSetUp
<1>10. HasOneDefault(c) => HasOneDefault(d)
  <2>. SUFFICES ASSUME HasOneDefault(c)
                PROVE  HasOneDefault(d)
    OBVIOUS
  <2>1. PICK i \in 1 .. l : \A j \in 1 .. l : c.streams[j].default <=> j = i
    BY <1>1 DEF HasOneDefault
  <2>2. \A j \in 1 .. l : d.streams[j].default = c.streams[j].default
    BY <1>2, <1>6, <1>7
  <2>3. \A j \in 1 .. l : d.streams[j].default <=> j = i
    BY <2>1, <2>2, Zenon
  <2>4. DOMAIN d.streams = 1 .. l
    BY <1>4, <1>7
  <2>5. \A j \in DOMAIN d.streams : d.streams[j].default <=> j = i
    BY <2>3, <2>4, Zenon
  <2>6. i \in DOMAIN d.streams
    BY <2>4
  <2>. QED  BY <2>5, <2>6, Zenon DEF HasOneDefault
<1>. QED  BY <1>1, <1>4, <1>6, <1>7, <1>8, <1>9, <1>10 DEF d, l

(* Once the keys are in their places, it changes nothing more. *)
LEMMA FixUpCameraTwice ==
  ASSUME NEW c \in Camera, NEW n \in Nat, NEW first \in Nat, Numbered(c)
  PROVE  FixUpCamera(FixUpCamera(c, n, first), n, first) = FixUpCamera(c, n, first)
<1>. DEFINE d == FixUpCamera(c, n, first)
            D == DOMAIN c.streams
<1>1. /\ d \in Camera /\ Numbered(d)
      /\ d.recordingStream = c.recordingStream /\ DOMAIN d.streams = D
      /\ \A i \in D : d.streams[i] = FixedUpStream(c, n, first, i)
  BY FixUpCameraFacts
<1>2. \A i \in D :
        /\ d.streams[i] \in Stream
        /\ d.streams[i].key = i /\ d.streams[i].motion = c.streams[i].motion
        /\ d.streams[i].trigger = IF RecordsIn(c, i) THEN NoKey ELSE c.streams[i].trigger
        /\ d.streams[i].rec = RecIn(c, n, first, i)
        /\ c.streams[i].key = i /\ c.streams[i] \in Stream /\ i \in Nat
  BY <1>1, FixedUpStreamFacts, CameraFacts DEF Numbered
<1>. HIDE DEF d, D
<1>3. \A i \in D : RecordsIn(d, i) <=> RecordsIn(c, i)
  BY <1>1, <1>2 DEF RecordsIn
<1>4. \A i \in D : DetectsIn(d, i) <=> DetectsIn(c, i)
  <2>1. \A i \in D : d.streams[i].motion = c.streams[i].motion
    BY <1>2
  <2>. QED  BY <1>3, <2>1, Zenon DEF DetectsIn
<1>5. \A i, j \in D : TriggersIn(d, j, i) <=> TriggersIn(c, j, i)
  <2>. SUFFICES ASSUME NEW i \in D, NEW j \in D
                PROVE  TriggersIn(d, j, i) <=> TriggersIn(c, j, i)
    OBVIOUS
  <2>1. CASE RecordsIn(c, j)
    BY <1>3, <1>4, <2>1 DEF TriggersIn, DetectsIn
  <2>2. CASE ~RecordsIn(c, j)
    <3>1. d.streams[j].trigger = c.streams[j].trigger /\ d.streams[i].key = c.streams[i].key
      BY <1>2, <2>2
    <3>. QED  BY <1>4, <3>1, Zenon DEF TriggersIn
  <2>. QED  BY <2>1, <2>2
<1>6. \A i \in D : Works(d, i) <=> Works(c, i)
  <2>1. DOMAIN c.streams = D /\ DOMAIN d.streams = D
    BY <1>1 DEF D
  <2>. QED  BY <1>3, <1>4, <1>5, <2>1, Zenon DEF Works
<1>7. \A i \in D : NumberIn(d, i) = i /\ NumberIn(c, i) = i
  BY <1>2 DEF NumberIn
<1>8. \A i \in D : RecIn(d, n, first, i) = RecIn(c, n, first, i)
  <2>. SUFFICES ASSUME NEW i \in D
                PROVE  RecIn(d, n, first, i) = RecIn(c, n, first, i)
    OBVIOUS
  <2>1. CASE Works(c, i)
    BY <1>6, <1>7, <2>1 DEF RecIn
  <2>2. CASE ~Works(c, i)
    <3>. DEFINE r == c.streams[i].rec
    <3>1. r \in [on : BOOLEAN, src : Nat \X Nat, loc : Nat]
      BY <1>2 DEF Stream
    <3>2. d.streams[i].rec = [r EXCEPT !.on = FALSE]
      BY <1>2, <2>2 DEF RecIn
    <3>3. RecIn(d, n, first, i) = [d.streams[i].rec EXCEPT !.on = FALSE]
      BY <1>6, <2>2 DEF RecIn
    <3>4. RecIn(c, n, first, i) = [r EXCEPT !.on = FALSE]
      BY <2>2 DEF RecIn
    <3>. HIDE DEF r
    <3>5. [[r EXCEPT !.on = FALSE] EXCEPT !.on = FALSE] = [r EXCEPT !.on = FALSE]
      BY <3>1
    <3>. QED  BY <3>2, <3>3, <3>4, <3>5
  <2>. QED  BY <2>1, <2>2
<1>9. \A i \in D : FixedUpStream(d, n, first, i) = d.streams[i]
  <2>. SUFFICES ASSUME NEW i \in D
                PROVE  FixedUpStream(d, n, first, i) = d.streams[i]
    OBVIOUS
  <2>. DEFINE s == d.streams[i]
              rec == RecIn(c, n, first, i)
  <2>1. RecordsIn(d, i) => s.trigger = NoKey
    BY <1>2, <1>3
  <2>2. FixedUpStream(d, n, first, i) = [s EXCEPT !.key = i, !.rec = rec, !.trigger = s.trigger]
    BY <1>8, <2>1 DEF FixedUpStream
  <2>3. s \in Stream /\ s.key = i /\ s.rec = rec
    BY <1>2
  <2>. HIDE DEF s, rec
  <2>4. [s EXCEPT !.key = i, !.rec = rec, !.trigger = s.trigger] = s
    BY <2>3 DEF Stream
  <2>. QED  BY <2>2, <2>4 DEF s
<1>10. FixUpCamera(d, n, first) =
         [d EXCEPT !.streams = [i \in DOMAIN d.streams |-> FixedUpStream(d, n, first, i)]]
  BY FixUpCameraIs
<1>11. [i \in DOMAIN d.streams |-> FixedUpStream(d, n, first, i)] = d.streams
  <2>. DEFINE ss == d.streams
  <2>1. ss \in Seq(Stream)
    BY <1>1, CameraFacts
  <2>2. ss = [i \in DOMAIN ss |-> ss[i]]
    <3>. HIDE DEF ss
    <3>. QED  BY <2>1, LenProperties
  <2>. QED  BY <1>1, <1>9, <2>2
<1>12. [d EXCEPT !.streams = d.streams] = d
  BY <1>1 DEF Camera
<1>. QED  BY <1>10, <1>11, <1>12 DEF d

(* What records in a camera that has been fixed up has a reason to, and is itself. *)
LEMMA FixedUpRecords ==
  ASSUME NEW c \in Camera, NEW n \in Nat, NEW first \in Nat, NEW i \in DOMAIN c.streams,
         FixUpCamera(c, n, first).streams[i].rec.on
  PROVE  /\ QuietUnlessSetUp(c) => c.type # "none"
         /\ Numbered(c) => FixUpCamera(c, n, first).streams[i].rec.src = <<n, i>>
         /\ FixUpCamera(c, n, first).streams[i].rec.loc = first + i - 1
<1>. DEFINE rec == RecIn(c, n, first, i)
<1>1. FixUpCamera(c, n, first).streams[i].rec = rec
  BY FixUpCameraFacts, FixedUpStreamFacts
<1>2. c.streams[i].rec \in [on : BOOLEAN, src : Nat \X Nat, loc : Nat]
  BY CameraFacts DEF Stream
<1>3. rec.on
  BY <1>1
<1>4. Works(c, i)
  <2>. SUFFICES ASSUME ~Works(c, i)
                PROVE  FALSE
    OBVIOUS
  <2>1. rec = [c.streams[i].rec EXCEPT !.on = FALSE]
    BY DEF RecIn
  <2>2. ~rec.on
    BY <1>2, <2>1
  <2>. QED  BY <1>3, <2>2
<1>5. rec.src = <<n, NumberIn(c, i)>> /\ rec.loc = first + i - 1
  BY <1>4 DEF RecIn
<1>6. Numbered(c) => NumberIn(c, i) = i
  BY DEF Numbered, NumberIn
<1>7. QuietUnlessSetUp(c) => c.type # "none"
  BY <1>4 DEF Works, TriggersIn, DetectsIn, RecordsIn, QuietUnlessSetUp
<1>. QED  BY <1>1, <1>5, <1>6, <1>7

(***************************************************************************)
(* FixUpCameraData, of a table.  What has been through it is well formed,  *)
(* and with the keys in their places beforehand it stays as it is.         *)
(***************************************************************************)
Unnumbered(cs) ==
  cs \in Seq(Camera) /\ \A n \in DOMAIN cs : QuietUnlessSetUp(cs[n]) /\ HasOneDefault(cs[n])

First(cs, n) == 1 + Cardinality(StreamsBefore(cs, n))

LEMMA FixUpDataFacts ==
  ASSUME NEW cs, Unnumbered(cs)
  PROVE  LET fs == FixUpCameraData(cs) IN
         /\ WellFormed(fs) /\ Len(cs) \in Nat /\ Len(fs) = Len(cs)
         /\ DOMAIN fs = 1 .. Len(cs) /\ DOMAIN cs = 1 .. Len(cs)
         /\ \A n \in 1 .. Len(cs) :
              /\ cs[n] \in Camera /\ First(cs, n) \in Nat
              /\ fs[n] = FixUpCamera(cs[n], n, First(cs, n))
              /\ Len(fs[n].streams) = Len(cs[n].streams)
              /\ DOMAIN fs[n].streams = DOMAIN cs[n].streams
<1>. DEFINE fs == FixUpCameraData(cs)
            l == Len(cs)
<1>1. /\ cs \in Seq(Camera) /\ l \in Nat /\ DOMAIN cs = 1 .. l
      /\ \A n \in 1 .. l : cs[n] \in Camera /\ QuietUnlessSetUp(cs[n]) /\ HasOneDefault(cs[n])
  BY LenProperties, ElementOfSeq DEF Unnumbered
<1>2. \A n \in 1 .. l : First(cs, n) \in Nat
  <2>1. \A n \in 1 .. l : n \in 1 .. Len(cs) + 1
    BY <1>1
  <2>2. \A n \in 1 .. l : Cardinality(StreamsBefore(cs, n)) \in Nat
    BY <1>1, <2>1, StreamsAreFinite
  <2>. QED  BY <2>2 DEF First
<1>3. fs = [n \in 1 .. l |-> FixUpCamera(cs[n], n, First(cs, n))]
  BY <1>1 DEF FixUpCameraData, First
<1>. HIDE DEF fs, l
<1>4. \A n \in 1 .. l : n \in Nat
  BY <1>1
<1>5. \A n \in 1 .. l :
        LET d == FixUpCamera(cs[n], n, First(cs, n)) IN
        /\ d \in Camera /\ Numbered(d) /\ QuietUnlessSetUp(d) /\ HasOneDefault(d)
        /\ Len(d.streams) = Len(cs[n].streams) /\ DOMAIN d.streams = DOMAIN cs[n].streams
  BY <1>1, <1>2, <1>4, FixUpCameraFacts
<1>6. fs \in [1 .. l -> Camera]
  BY <1>3, <1>5
<1>7. fs \in Seq(Camera) /\ Len(fs) = l /\ DOMAIN fs = 1 .. l
  BY <1>1, <1>6, FunctionIsSeq
<1>8. \A n \in 1 .. l : fs[n] = FixUpCamera(cs[n], n, First(cs, n))
  BY <1>3
<1>9. WellFormed(fs)
  BY <1>5, <1>7, <1>8 DEF WellFormed
<1>. QED  BY <1>1, <1>2, <1>5, <1>7, <1>8, <1>9 DEF fs, l

LEMMA FixUpDataTwice ==
  ASSUME NEW cs, WellFormed(cs)
  PROVE  FixUpCameraData(FixUpCameraData(cs)) = FixUpCameraData(cs)
<1>. DEFINE fs == FixUpCameraData(cs)
            gs == FixUpCameraData(fs)
            l == Len(cs)
<1>1. Unnumbered(cs) /\ \A n \in DOMAIN cs : Numbered(cs[n])
  BY DEF WellFormed, Unnumbered
<1>2. /\ WellFormed(fs) /\ l \in Nat /\ Len(fs) = l
      /\ DOMAIN fs = 1 .. l /\ DOMAIN cs = 1 .. l
      /\ \A n \in 1 .. l :
           /\ cs[n] \in Camera /\ First(cs, n) \in Nat
           /\ fs[n] = FixUpCamera(cs[n], n, First(cs, n))
           /\ DOMAIN fs[n].streams = DOMAIN cs[n].streams
  BY <1>1, FixUpDataFacts
<1>3. Unnumbered(fs)
  BY <1>2 DEF WellFormed, Unnumbered
<1>. HIDE DEF fs, l
<1>4. /\ DOMAIN gs = 1 .. l
      /\ \A n \in 1 .. l : gs[n] = FixUpCamera(fs[n], n, First(fs, n))
      /\ WellFormed(gs)
  BY <1>2, <1>3, FixUpDataFacts
<1>5. \A n \in 1 .. l : First(fs, n) = First(cs, n)
  <2>. SUFFICES ASSUME NEW n \in 1 .. l
                PROVE  StreamsBefore(fs, n) = StreamsBefore(cs, n)
    BY DEF First
  <2>1. \A m \in 1 .. n - 1 : m \in 1 .. l
    BY <1>2
  <2>2. \A m \in 1 .. n - 1 : DOMAIN fs[m].streams = DOMAIN cs[m].streams
    BY <1>2, <2>1
  <2>. QED  BY <2>2 DEF StreamsBefore
<1>6. \A n \in 1 .. l : gs[n] = fs[n]
  <2>. SUFFICES ASSUME NEW n \in 1 .. l
                PROVE  gs[n] = fs[n]
    OBVIOUS
  <2>1. /\ cs[n] \in Camera /\ n \in Nat /\ First(cs, n) \in Nat /\ Numbered(cs[n])
    BY <1>1, <1>2
  <2>. QED  BY <1>2, <1>4, <1>5, <2>1, FixUpCameraTwice
<1>. HIDE DEF gs
<1>7. fs \in Seq(Camera) /\ gs \in Seq(Camera)
  BY <1>2, <1>4 DEF WellFormed
<1>8. gs = fs
  <2>1. fs = [n \in 1 .. l |-> fs[n]] /\ gs = [n \in 1 .. l |-> gs[n]]
    BY <1>2, <1>4, <1>7, LenProperties
  <2>. QED  BY <1>6, <2>1
<1>. QED  BY <1>8 DEF fs, gs

-----------------------------------------------------------------------------
(* The properties, from the inductive invariant. *)

LEMMA DefaultIsOne ==
  ASSUME IInv
  PROVE  OneDefault
<1>. SUFFICES ASSUME NEW n \in DOMAIN cameras
              PROVE  Cardinality({i \in DOMAIN cameras[n].streams : cameras[n].streams[i].default}) = 1
  BY DEF OneDefault
<1>. DEFINE T == {i \in DOMAIN cameras[n].streams : cameras[n].streams[i].default}
<1>1. HasOneDefault(cameras[n])
  BY DEF IInv, WellFormed
<1>2. \E i : T = {i}
  BY <1>1 DEF HasOneDefault
<1>. HIDE DEF T
<1>3. Cardinality(T) = 1
  BY <1>2, FS_Singleton
<1>. QED  BY <1>3 DEF T

LEMMA WhatRecordsIsItself ==
  ASSUME IInv
  PROVE  RecordingsSaved
<1>. SUFFICES ASSUME server # << >>
              PROVE  LET cs == server[1]
                         rec(r) == cs[r[1]].streams[r[2]].rec
                     IN  \A r \in Recordings(cs) :
                           /\ cs[r[1]].type # "none"
                           /\ rec(r).src = r
                           /\ \A q \in Recordings(cs) : q # r => rec(q).loc # rec(r).loc
  BY DEF RecordingsSaved
<1>. DEFINE cs == server[1]
            rec(r) == cs[r[1]].streams[r[2]].rec
<1>1. WellFormed(cs) /\ FixUpCameraData(cs) = cs
  BY DEF IInv, Kept
<1>. HIDE DEF cs
<1>2. Unnumbered(cs) /\ cs \in Seq(Camera)
      /\ \A n \in DOMAIN cs : Numbered(cs[n]) /\ QuietUnlessSetUp(cs[n])
  BY <1>1 DEF WellFormed, Unnumbered
<1>3. /\ Len(cs) \in Nat /\ DOMAIN cs = 1 .. Len(cs)
      /\ \A n \in 1 .. Len(cs) :
           /\ cs[n] \in Camera /\ First(cs, n) \in Nat
           /\ cs[n] = FixUpCamera(cs[n], n, First(cs, n))
  BY <1>1, <1>2, FixUpDataFacts
<1>4. ASSUME NEW r \in Recordings(cs)
      PROVE  /\ r = <<r[1], r[2]>>
             /\ r[1] \in 1 .. Len(cs) /\ r[2] \in 1 .. Len(cs[r[1]].streams)
             /\ cs[r[1]].type # "none"
             /\ rec(r).src = r
             /\ rec(r).loc = First(cs, r[1]) + r[2] - 1
  <2>1. r \in StreamsBefore(cs, Len(cs) + 1) /\ rec(r).on
    BY <1>4 DEF Recordings, StreamsOf
  <2>2. PICK n \in 1 .. Len(cs) : r \in {n} \X DOMAIN cs[n].streams
    BY <1>3, <2>1 DEF StreamsBefore
  <2>3. r[1] = n /\ r = <<n, r[2]>> /\ r[2] \in DOMAIN cs[n].streams
    BY <2>2
  <2>4. cs[n] \in Camera /\ n \in Nat /\ First(cs, n) \in Nat /\ Numbered(cs[n])
        /\ QuietUnlessSetUp(cs[n]) /\ cs[n] = FixUpCamera(cs[n], n, First(cs, n))
    BY <1>2, <1>3
  <2>5. /\ cs[n].type # "none" /\ rec(r).src = <<n, r[2]>>
        /\ rec(r).loc = First(cs, n) + r[2] - 1
    BY <2>1, <2>3, <2>4, FixedUpRecords
  <2>6. r[2] \in 1 .. Len(cs[n].streams)
    BY <2>3, <2>4, CameraFacts
  <2>. QED  BY <2>3, <2>5, <2>6
<1>5. ASSUME NEW m \in 1 .. Len(cs), NEW n \in 1 .. Len(cs), m < n,
             NEW i \in 1 .. Len(cs[m].streams), NEW j \in 1 .. Len(cs[n].streams)
      PROVE  First(cs, m) + i - 1 < First(cs, n) + j - 1
  <2>. DEFINE a == Cardinality(StreamsBefore(cs, m))
              b == Cardinality(StreamsBefore(cs, n))
              k == Len(cs[m].streams)
              h == Len(cs[n].streams)
  <2>1. n \in m + 1 .. Len(cs) + 1 /\ m \in 1 .. Len(cs) + 1 /\ n \in 1 .. Len(cs) + 1
    BY <1>3, <1>5
  <2>2. a \in Nat /\ b \in Nat /\ a + k <= b
    BY <1>2, <2>1, StreamsAreFinite, StreamsAdd
  <2>3. k \in Nat /\ h \in Nat
    BY <1>3, CameraFacts
  <2>4. i \in 1 .. k /\ j \in 1 .. h
    BY <1>5
  <2>. HIDE DEF a, b, k, h
  <2>5. 1 + a + i - 1 < 1 + b + j - 1
    BY <2>2, <2>3, <2>4
  <2>. QED  BY <2>5 DEF First, a, b
<1>6. ASSUME NEW r \in Recordings(cs), NEW q \in Recordings(cs), q # r
      PROVE  rec(q).loc # rec(r).loc
  <2>1. /\ r = <<r[1], r[2]>> /\ r[1] \in 1 .. Len(cs) /\ r[2] \in 1 .. Len(cs[r[1]].streams)
        /\ rec(r).loc = First(cs, r[1]) + r[2] - 1
    BY <1>4
  <2>2. /\ q = <<q[1], q[2]>> /\ q[1] \in 1 .. Len(cs) /\ q[2] \in 1 .. Len(cs[q[1]].streams)
        /\ rec(q).loc = First(cs, q[1]) + q[2] - 1
    BY <1>4
  <2>. DEFINE m == r[1]  i == r[2]  n == q[1]  j == q[2]
  <2>3. m \in Nat /\ n \in Nat /\ First(cs, m) \in Nat /\ First(cs, n) \in Nat
    BY <1>3, <2>1, <2>2
  <2>4. i \in Nat /\ j \in Nat
    BY <1>3, <2>1, <2>2, CameraFacts
  <2>5. m # n \/ i # j
    BY <1>6, <2>1, <2>2
  <2>. HIDE DEF m, n, i, j, rec
  <2>6. m \in 1 .. Len(cs) /\ n \in 1 .. Len(cs)
        /\ i \in 1 .. Len(cs[m].streams) /\ j \in 1 .. Len(cs[n].streams)
        /\ rec(r).loc = First(cs, m) + i - 1 /\ rec(q).loc = First(cs, n) + j - 1
    BY <2>1, <2>2 DEF m, n, i, j
  <2>7. CASE m < n
    <3>1. First(cs, m) + i - 1 < First(cs, n) + j - 1
      BY <1>5, <2>6, <2>7
    <3>. QED  BY <2>3, <2>4, <2>6, <3>1
  <2>8. CASE n < m
    <3>1. First(cs, n) + j - 1 < First(cs, m) + i - 1
      BY <1>5, <2>6, <2>8
    <3>. QED  BY <2>3, <2>4, <2>6, <3>1
  <2>9. CASE m = n
    BY <2>3, <2>4, <2>5, <2>6, <2>9
  <2>. QED  BY <2>3, <2>7, <2>8, <2>9
<1>7. \A r \in Recordings(cs) :
        /\ cs[r[1]].type # "none"
        /\ rec(r).src = r
        /\ \A q \in Recordings(cs) : q # r => rec(q).loc # rec(r).loc
  BY <1>4, <1>6
<1>. QED  BY <1>7 DEF cs

LEMMA LeavesWhatWasSaved ==
  ASSUME IInv
  PROVE  LeftWhenSaved
BY DEF IInv, LeftWhenSaved, DataHasChanged

-----------------------------------------------------------------------------
(* The table's edits *)

LEMMA KeptEmpty == Kept(<< >>)
BY DEF Kept

LEMMA KeptFixedUp ==
  ASSUME NEW cs, WellFormed(cs)
  PROVE  Kept(<<FixUpCameraData(cs)>>)
<1>1. WellFormed(FixUpCameraData(cs))
  BY FixUpDataFacts DEF WellFormed, Unnumbered
<1>. DEFINE fs == FixUpCameraData(cs)
<1>2. fs \in Seq(Camera) /\ FixUpCameraData(fs) = fs
  BY <1>1, FixUpDataTwice DEF WellFormed
<1>. HIDE DEF fs
<1>. QED  BY <1>1, <1>2 DEF Kept, fs

LEMMA TableFacts ==
  ASSUME NEW cs, WellFormed(cs)
  PROVE  /\ cs \in Seq(Camera) /\ Len(cs) \in Nat /\ DOMAIN cs = 1 .. Len(cs)
         /\ \A n \in 1 .. Len(cs) :
              /\ cs[n] \in Camera /\ Numbered(cs[n]) /\ QuietUnlessSetUp(cs[n])
              /\ HasOneDefault(cs[n])
BY LenProperties, ElementOfSeq DEF WellFormed

(* While nothing is being saved, only the table and its rows are at stake. *)
LEMMA TableEdited ==
  ASSUME IInv, saving = << >>, UNCHANGED <<server, saving, loads, saved, crossed>>,
         WellFormed(cameras'), CloneOfItsRow', RowsAreThere'
  PROVE  IInv'
<1>1. Kept(server)' /\ Kept(saving)' /\ Kept(loads.cams)'
  BY DEF IInv, Kept
<1>2. SavesTheTable'
  BY DEF SavesTheTable
<1>. QED  BY <1>1, <1>2 DEF IInv, WellFormed

LEMMA NoClone ==
  ASSUME local' = << >>
  PROVE  CloneOfItsRow'
BY DEF CloneOfItsRow

(* The rows are made again, of the cameras as they have become. *)
LEMMA RowsMade ==
  ASSUME NEW cs, WellFormed(cs), cameras' = cs, Rows(cs), UNCHANGED popup
  PROVE  CloneOfItsRow'
<1>1. CASE popup[1] = "recording" /\ popup[2] \in DOMAIN cs
  <2>. DEFINE c == cs[popup[2]]
  <2>1. c \in Camera /\ Numbered(c) /\ QuietUnlessSetUp(c)
    BY <1>1, TableFacts
  <2>2. Len(c.streams) \in Nat /\ DOMAIN c.streams = 1 .. Len(c.streams)
    BY <2>1, CameraFacts
  <2>3. local' = <<c>>
    BY <1>1 DEF Rows
  <2>4. local' \in Seq(Camera) /\ Len(local') = 1 /\ local'[1] = c
    <3>. HIDE DEF c
    <3>. QED  BY <2>1, <2>3
  <2>5. Len(local'[1].streams) <= Len(c.streams)
    BY <2>2, <2>4
  <2>6. \A i \in DOMAIN c.streams : ~(i > Len(local'[1].streams))
    BY <2>2, <2>4
  <2>. QED  BY <1>1, <2>1, <2>4, <2>5, <2>6 DEF CloneOfItsRow
<1>2. CASE ~(popup[1] = "recording" /\ popup[2] \in DOMAIN cs)
  BY <1>2, NoClone DEF Rows
<1>. QED  BY <1>1, <1>2

(* The clone's camera has at least the streams that it had, and those that the clone has
   not are without motion. *)
LEMMA CloneStays ==
  ASSUME IInv, UNCHANGED <<local, popup>>, DOMAIN cameras \subseteq DOMAIN cameras',
         \A n \in DOMAIN cameras :
           /\ Len(cameras'[n].streams) \in Nat /\ Len(cameras'[n].streams) >= Len(cameras[n].streams)
           /\ \A i \in DOMAIN cameras'[n].streams :
                cameras'[n].streams[i].motion =>
                  i \in DOMAIN cameras[n].streams /\ cameras[n].streams[i].motion
  PROVE  CloneOfItsRow'
<1>1. CloneOfItsRow /\ WellFormed(cameras)
  BY DEF IInv
<1>. SUFFICES ASSUME local # << >>
              PROVE  LET ss == cameras'[popup[2]].streams IN
                     /\ Len(local[1].streams) <= Len(ss)
                     /\ \A i \in DOMAIN ss : i > Len(local[1].streams) => ~ss[i].motion
  BY <1>1 DEF CloneOfItsRow
<1>. DEFINE n == popup[2]
            l == Len(local[1].streams)
<1>2. n \in DOMAIN cameras /\ local[1] \in Camera
  BY <1>1 DEF CloneOfItsRow
<1>3. cameras[n] \in Camera
  BY <1>1, <1>2, TableFacts
<1>4. l \in Nat /\ Len(cameras[n].streams) \in Nat
  BY <1>2, <1>3, CameraFacts
<1>5. l <= Len(cameras[n].streams)
      /\ \A i \in DOMAIN cameras[n].streams : i > l => ~cameras[n].streams[i].motion
  BY <1>1 DEF CloneOfItsRow
<1>. HIDE DEF l, n
<1>6. l <= Len(cameras'[n].streams)
  BY <1>2, <1>4, <1>5
<1>7. \A i \in DOMAIN cameras'[n].streams : i > l => ~cameras'[n].streams[i].motion
  BY <1>2, <1>5, Zenon
<1>. QED  BY <1>6, <1>7 DEF l, n

LEMMA RowsStay ==
  ASSUME RowsAreThere, UNCHANGED <<expanded, popup>>,
         Len(cameras) \in Nat, DOMAIN cameras = 1 .. Len(cameras),
         Len(cameras') \in Nat, Len(cameras') >= Len(cameras),
         \A n \in DOMAIN cameras :
           /\ Len(cameras[n].streams) \in Nat
           /\ Len(cameras'[n].streams) \in Nat /\ Len(cameras'[n].streams) >= Len(cameras[n].streams)
  PROVE  RowsAreThere'
<1>1. expanded \in 0 .. Len(cameras) /\ expanded' \in 0 .. Len(cameras')
  BY DEF RowsAreThere
<1>2. ASSUME popup[1] = "deleteStream", expanded # 0
      PROVE  Len(cameras'[expanded].streams) > 1
  <2>1. expanded \in DOMAIN cameras
    BY <1>1, <1>2
  <2>2. Len(cameras[expanded].streams) > 1
    BY <1>2 DEF RowsAreThere
  <2>. QED  BY <2>1, <2>2
<1>. QED  BY <1>1, <1>2 DEF RowsAreThere

(* A new camera, and those that are discovered. *)
LEMMA NewCameras ==
  /\ \A n \in Nat \ {0} :
       /\ Device(n) \in Camera /\ Numbered(Device(n)) /\ QuietUnlessSetUp(Device(n))
       /\ HasOneDefault(Device(n))
  /\ Single \in Camera /\ Numbered(Single) /\ QuietUnlessSetUp(Single) /\ HasOneDefault(Single)
<1>0. /\ \A i \in Nat : \A b \in BOOLEAN :
           LET s == [NewStream(i) EXCEPT !.default = b] IN
           s \in Stream /\ s.key = i /\ s.default = b /\ ~s.motion
  BY DEF NewStream, NoRecording, NoKey, Stream
<1>1. ASSUME NEW n \in Nat \ {0}
      PROVE  /\ Device(n) \in Camera /\ Numbered(Device(n)) /\ QuietUnlessSetUp(Device(n))
             /\ HasOneDefault(Device(n))
  <2>. DEFINE ss == [i \in 1 .. n |-> [NewStream(i) EXCEPT !.default = (i = n)]]
  <2>1. \A i \in 1 .. n : /\ ss[i] \in Stream /\ ss[i].key = i /\ ~ss[i].motion
                          /\ ss[i].default = (i = n)
    <3>1. \A i \in 1 .. n : i \in Nat /\ (i = n) \in BOOLEAN
      BY <1>1
    <3>. QED  BY <1>0, <3>1
  <2>2. ss \in Seq(Stream) /\ DOMAIN ss = 1 .. n
    <3>1. ss \in [1 .. n -> Stream] /\ n \in Nat
      BY <2>1
    <3>. QED  BY <3>1, FunctionIsSeq
  <2>. HIDE DEF ss
  <2>3. /\ Device(n) = [type |-> "none", recordingStream |-> NoKey, motionStream |-> NoKey,
                        topic |-> FALSE, valid |-> TRUE, streams |-> ss]
    <3>1. Device(n) = [NewCamera(ss) EXCEPT !.valid = TRUE]
      BY DEF Device, ss
    <3>. QED  BY <3>1 DEF NewCamera
  <2>4. Device(n) \in Camera /\ Device(n).streams = ss /\ Device(n).recordingStream = NoKey
    BY <2>2, <2>3 DEF Camera, NoKey
  <2>5. n \in 1 .. n /\ \A j \in 1 .. n : ss[j].default <=> j = n
    <3>1. n \in 1 .. n
      OBVIOUS
    <3>2. \A j \in 1 .. n : ss[j].default = (j = n)
      BY <2>1
    <3>. QED  BY <3>1, <3>2, Zenon
  <2>. QED  BY <2>1, <2>2, <2>4, <2>5 DEF Numbered, QuietUnlessSetUp, HasOneDefault
<1>2. Single \in Camera /\ Numbered(Single) /\ QuietUnlessSetUp(Single) /\ HasOneDefault(Single)
  <2>. DEFINE s == [NewStream(1) EXCEPT !.default = TRUE]
              ss == <<s>>
  <2>1. s \in Stream /\ s.key = 1 /\ s.default /\ ~s.motion
    BY <1>0
  <2>. HIDE DEF s
  <2>2. ss \in Seq(Stream) /\ DOMAIN ss = {1} /\ ss[1] = s
    BY <2>1
  <2>3. Single = [type |-> "none", recordingStream |-> NoKey, motionStream |-> NoKey,
                  topic |-> FALSE, valid |-> FALSE, streams |-> ss]
    BY DEF Single, NewCamera, s
  <2>. HIDE DEF ss
  <2>4. Single \in Camera /\ Single.streams = ss /\ Single.recordingStream = NoKey
    BY <2>2, <2>3 DEF Camera, NoKey
  <2>. QED  BY <2>1, <2>2, <2>4 DEF Numbered, QuietUnlessSetUp, HasOneDefault
<1>. QED  BY <1>1, <1>2

(* A camera is added at the end. *)
LEMMA CameraAdded ==
  ASSUME IInv, NEW c \in Camera, QuietUnlessSetUp(c), HasOneDefault(c),
         Shows(FixUpCameraData(Append(cameras, c))), UNCHANGED <<expanded, popup>>
  PROVE  WellFormed(cameras') /\ CloneOfItsRow' /\ RowsAreThere'
<1>. DEFINE as == Append(cameras, c)
            fs == FixUpCameraData(as)
<1>1. /\ WellFormed(cameras) /\ RowsAreThere
      /\ cameras \in Seq(Camera) /\ Len(cameras) \in Nat /\ DOMAIN cameras = 1 .. Len(cameras)
      /\ \A n \in 1 .. Len(cameras) :
           /\ cameras[n] \in Camera /\ QuietUnlessSetUp(cameras[n]) /\ HasOneDefault(cameras[n])
  BY TableFacts DEF IInv
<1>2. /\ as \in Seq(Camera) /\ Len(as) = Len(cameras) + 1 /\ DOMAIN as = 1 .. Len(cameras) + 1
      /\ \A n \in 1 .. Len(cameras) : as[n] = cameras[n]
      /\ as[Len(cameras) + 1] = c
  BY <1>1, AppendAt
<1>. HIDE DEF as
<1>3. Unnumbered(as)
  <2>. SUFFICES ASSUME NEW n \in 1 .. Len(cameras) + 1
                PROVE  QuietUnlessSetUp(as[n]) /\ HasOneDefault(as[n])
    BY <1>2 DEF Unnumbered
  <2>1. n \in 1 .. Len(cameras) \/ n = Len(cameras) + 1
    BY <1>1
  <2>. QED  BY <1>1, <1>2, <2>1
<1>4. /\ WellFormed(fs) /\ Len(fs) = Len(as)
      /\ \A n \in 1 .. Len(as) : Len(fs[n].streams) = Len(as[n].streams)
  BY <1>3, FixUpDataFacts
<1>5. cameras' = fs /\ Rows(fs)
  BY DEF Shows, as
<1>. HIDE DEF fs
<1>6. WellFormed(cameras') /\ CloneOfItsRow'
  BY <1>4, <1>5, RowsMade
<1>7. RowsAreThere'
  <2>1. \A n \in DOMAIN cameras :
          /\ Len(cameras[n].streams) \in Nat
          /\ Len(cameras'[n].streams) = Len(cameras[n].streams)
    <3>1. \A n \in 1 .. Len(cameras) : n \in 1 .. Len(as)
      BY <1>1, <1>2
    <3>. QED  BY <1>1, <1>2, <1>4, <1>5, <3>1, CameraFacts
  <2>2. Len(cameras') \in Nat /\ Len(cameras') >= Len(cameras)
    BY <1>1, <1>2, <1>4, <1>5
  <2>. QED  BY <1>1, <2>1, <2>2, RowsStay
<1>. QED  BY <1>6, <1>7

(* A field of a camera, or of its streams, that is not part of its set-up. *)
LEMMA CameraReplaced ==
  ASSUME IInv, NEW n \in DOMAIN cameras, NEW c \in Camera,
         Numbered(c), HasOneDefault(c),
         c.type = cameras[n].type, c.recordingStream = cameras[n].recordingStream,
         DOMAIN c.streams = DOMAIN cameras[n].streams,
         \A i \in DOMAIN c.streams : c.streams[i].motion = cameras[n].streams[i].motion,
         cameras' = [cameras EXCEPT ![n] = c], UNCHANGED <<expanded, popup, local>>
  PROVE  WellFormed(cameras') /\ CloneOfItsRow' /\ RowsAreThere'
<1>1. /\ WellFormed(cameras) /\ RowsAreThere
      /\ cameras \in Seq(Camera) /\ Len(cameras) \in Nat /\ DOMAIN cameras = 1 .. Len(cameras)
      /\ \A m \in 1 .. Len(cameras) :
           /\ cameras[m] \in Camera /\ Numbered(cameras[m]) /\ QuietUnlessSetUp(cameras[m])
           /\ HasOneDefault(cameras[m])
  BY TableFacts DEF IInv
<1>2. QuietUnlessSetUp(c)
  BY <1>1, Zenon DEF QuietUnlessSetUp
<1>3. /\ cameras' \in Seq(Camera) /\ Len(cameras') = Len(cameras)
      /\ DOMAIN cameras' = DOMAIN cameras
      /\ \A m \in DOMAIN cameras : cameras'[m] = IF m = n THEN c ELSE cameras[m]
  BY <1>1, ExceptSeq
<1>4. WellFormed(cameras')
  BY <1>1, <1>2, <1>3 DEF WellFormed
<1>5. \A m \in DOMAIN cameras :
        /\ Len(cameras[m].streams) \in Nat
        /\ Len(cameras'[m].streams) = Len(cameras[m].streams)
        /\ DOMAIN cameras'[m].streams = DOMAIN cameras[m].streams
        /\ \A i \in DOMAIN cameras[m].streams :
             cameras'[m].streams[i].motion = cameras[m].streams[i].motion
  <2>. SUFFICES ASSUME NEW m \in DOMAIN cameras
                PROVE  /\ Len(cameras[m].streams) \in Nat
                       /\ Len(cameras'[m].streams) = Len(cameras[m].streams)
                       /\ DOMAIN cameras'[m].streams = DOMAIN cameras[m].streams
                       /\ \A i \in DOMAIN cameras[m].streams :
                            cameras'[m].streams[i].motion = cameras[m].streams[i].motion
    OBVIOUS
  <2>1. /\ Len(cameras[m].streams) \in Nat
        /\ DOMAIN cameras[m].streams = 1 .. Len(cameras[m].streams)
    BY <1>1, CameraFacts
  <2>2. Len(c.streams) \in Nat /\ DOMAIN c.streams = 1 .. Len(c.streams)
    BY CameraFacts
  <2>3. CASE m = n
    <3>1. Len(c.streams) = Len(cameras[m].streams)
      <4>. DEFINE a == Len(c.streams)  b == Len(cameras[m].streams)
      <4>1. a \in Nat /\ b \in Nat /\ 1 .. a = 1 .. b
        BY <2>1, <2>2, <2>3
      <4>. HIDE DEF a, b
      <4>2. a = b
        BY <4>1
      <4>. QED  BY <4>2 DEF a, b
    <3>. QED  BY <1>3, <2>1, <2>3, <3>1
  <2>4. CASE m # n
    BY <1>3, <2>1, <2>4
  <2>. QED  BY <2>3, <2>4
<1>6. CloneOfItsRow'
  <2>1. \A m \in DOMAIN cameras :
          /\ Len(cameras'[m].streams) \in Nat /\ Len(cameras'[m].streams) >= Len(cameras[m].streams)
          /\ \A i \in DOMAIN cameras'[m].streams :
               cameras'[m].streams[i].motion =>
                 i \in DOMAIN cameras[m].streams /\ cameras[m].streams[i].motion
    BY <1>5
  <2>. QED  BY <1>3, <2>1, CloneStays
<1>7. RowsAreThere'
  BY <1>1, <1>3, <1>5, RowsStay
<1>. QED  BY <1>4, <1>6, <1>7

LEMMA FieldUpdated ==
  ASSUME IInv, UpdateField
  PROVE  IInv'
<1>1. PICK n \in DOMAIN cameras, v \in BOOLEAN : cameras' = [cameras EXCEPT ![n].valid = v]
  BY DEF UpdateField
<1>2. cameras[n] \in Camera /\ Numbered(cameras[n]) /\ HasOneDefault(cameras[n])
  BY TableFacts DEF IInv
<1>. DEFINE c == [cameras[n] EXCEPT !.valid = v]
<1>3. /\ c \in Camera /\ c.streams = cameras[n].streams /\ c.type = cameras[n].type
      /\ c.recordingStream = cameras[n].recordingStream
  BY <1>2 DEF Camera
<1>4. cameras' = [cameras EXCEPT ![n] = c]
  BY <1>1
<1>. HIDE DEF c
<1>5. Numbered(c) /\ HasOneDefault(c)
  BY <1>2, <1>3 DEF Numbered, HasOneDefault
<1>6. saving = << >> /\ UNCHANGED <<expanded, popup, local, server, saving, loads, saved, crossed>>
  BY DEF UpdateField, TableShown, Quiet, requests
<1>7. WellFormed(cameras') /\ CloneOfItsRow' /\ RowsAreThere'
  BY <1>3, <1>4, <1>5, <1>6, CameraReplaced
<1>. QED  BY <1>6, <1>7, TableEdited

LEMMA DefaultSet ==
  ASSUME IInv, SetDefault
  PROVE  IInv'
<1>. DEFINE n == expanded
<1>1. PICK i \in DOMAIN cameras[n].streams :
        cameras' = [cameras EXCEPT ![n] = SetDefaultOnMultiDisplayStatus(@, i)]
  BY DEF SetDefault
<1>2. n \in DOMAIN cameras
  BY TableFacts DEF SetDefault, IInv, RowsAreThere
<1>3. cameras[n] \in Camera /\ Numbered(cameras[n])
  BY <1>2, TableFacts DEF IInv
<1>. DEFINE l == Len(cameras[n].streams)
            ss == [j \in 1 .. l |-> [cameras[n].streams[j] EXCEPT !.default = (j = i)]]
            c == SetDefaultOnMultiDisplayStatus(cameras[n], i)
<1>4. /\ l \in Nat /\ DOMAIN cameras[n].streams = 1 .. l
      /\ \A j \in 1 .. l : cameras[n].streams[j] \in Stream
  BY <1>3, CameraFacts
<1>. HIDE DEF l
<1>5. c = [cameras[n] EXCEPT !.streams = ss]
  BY <1>4 DEF SetDefaultOnMultiDisplayStatus
<1>6. \A j \in 1 .. l : /\ ss[j] \in Stream /\ ss[j].key = cameras[n].streams[j].key
                        /\ ss[j].motion = cameras[n].streams[j].motion
                        /\ ss[j].default = (j = i)
  BY <1>4 DEF Stream
<1>7. ss \in Seq(Stream) /\ DOMAIN ss = 1 .. l
  <2>1. ss \in [1 .. l -> Stream]
    BY <1>6
  <2>. QED  BY <1>4, <2>1, FunctionIsSeq
<1>. HIDE DEF ss, c
<1>8. /\ c \in Camera /\ c.streams = ss /\ c.type = cameras[n].type
      /\ c.recordingStream = cameras[n].recordingStream
  BY <1>3, <1>5, <1>7, WithStreams
<1>9. Numbered(c)
  BY <1>3, <1>4, <1>6, <1>7, <1>8 DEF Numbered
<1>10. HasOneDefault(c)
  <2>1. \A j \in DOMAIN c.streams : c.streams[j].default <=> j = i
    <3>1. \A j \in DOMAIN c.streams : c.streams[j].default = (j = i)
      BY <1>6, <1>7, <1>8
    <3>. QED  BY <3>1, Zenon
  <2>2. i \in DOMAIN c.streams
    BY <1>4, <1>7, <1>8
  <2>. QED  BY <2>1, <2>2, Zenon DEF HasOneDefault
<1>11. cameras' = [cameras EXCEPT ![n] = c]
  BY <1>1 DEF c
<1>12. /\ saving = << >>
       /\ UNCHANGED <<expanded, popup, local, server, saving, loads, saved, crossed>>
  BY DEF SetDefault, TableShown, Quiet, requests
<1>. HIDE DEF n
<1>13. \A j \in DOMAIN c.streams : c.streams[j].motion = cameras[n].streams[j].motion
  BY <1>6, <1>7, <1>8
<1>14. DOMAIN c.streams = DOMAIN cameras[n].streams
  BY <1>4, <1>7, <1>8
<1>15. WellFormed(cameras') /\ CloneOfItsRow' /\ RowsAreThere'
  BY <1>2, <1>8, <1>9, <1>10, <1>11, <1>12, <1>13, <1>14, CameraReplaced
<1>. QED  BY <1>12, <1>15, TableEdited

LEMMA CamerasMoved ==
  ASSUME IInv, Move
  PROVE  IInv'
<1>1. PICK n \in 1 .. Len(cameras) - 1 :
        /\ Edit(FixUpCameraData([cameras EXCEPT ![n] = cameras[n + 1],
                                                ![n + 1] = cameras[n]]))
        /\ expanded' = CASE expanded = n -> n + 1 [] expanded = n + 1 -> n
                         [] OTHER -> expanded
  BY DEF Move
<1>. DEFINE l == Len(cameras)
            as == [cameras EXCEPT ![n] = cameras[n + 1], ![n + 1] = cameras[n]]
            fs == FixUpCameraData(as)
<1>2. /\ WellFormed(cameras) /\ RowsAreThere
      /\ cameras \in Seq(Camera) /\ l \in Nat /\ DOMAIN cameras = 1 .. l
      /\ \A m \in 1 .. l :
           /\ cameras[m] \in Camera /\ QuietUnlessSetUp(cameras[m]) /\ HasOneDefault(cameras[m])
  BY TableFacts DEF IInv
<1>3. saving = << >> /\ UNCHANGED <<popup, server, saving, loads, saved, crossed>>
  BY DEF Move, TableShown, Quiet, requests
<1>4. cameras' = fs /\ Rows(fs)
  BY <1>1 DEF Edit, Shows
<1>5. n \in 1 .. l /\ n + 1 \in 1 .. l /\ n # n + 1
  BY <1>2
<1>6. expanded \in 0 .. l /\ (popup[1] = "deleteStream" /\ expanded # 0 =>
                                Len(cameras[expanded].streams) > 1)
  BY <1>2 DEF RowsAreThere
<1>. HIDE DEF l
<1>7. /\ as \in Seq(Camera) /\ Len(as) = l
      /\ \A m \in 1 .. l : as[m] = IF m = n THEN cameras[n + 1]
                                   ELSE IF m = n + 1 THEN cameras[n] ELSE cameras[m]
  <2>. DEFINE bs == [cameras EXCEPT ![n] = cameras[n + 1]]
  <2>1. /\ bs \in Seq(Camera) /\ Len(bs) = l
        /\ \A m \in 1 .. l : bs[m] = IF m = n THEN cameras[n + 1] ELSE cameras[m]
    BY <1>2, <1>5, ExceptSeq DEF l
  <2>2. as = [bs EXCEPT ![n + 1] = cameras[n]]
    OBVIOUS
  <2>. HIDE DEF bs
  <2>3. /\ as \in Seq(Camera) /\ Len(as) = l
        /\ \A m \in 1 .. l : as[m] = IF m = n + 1 THEN cameras[n] ELSE bs[m]
    BY <1>2, <1>5, <2>1, <2>2, ExceptSeq
  <2>. QED  BY <1>5, <2>1, <2>3
<1>. HIDE DEF as
<1>8. DOMAIN as = 1 .. l
  BY <1>7, LenProperties
<1>9. Unnumbered(as)
  BY <1>2, <1>5, <1>7, <1>8 DEF Unnumbered
<1>10. /\ WellFormed(fs) /\ Len(fs) = l
       /\ \A m \in 1 .. l : Len(fs[m].streams) = Len(as[m].streams)
  BY <1>7, <1>9, FixUpDataFacts
<1>. HIDE DEF fs
<1>11. CloneOfItsRow'
  BY <1>3, <1>4, <1>10, RowsMade
<1>12. RowsAreThere'
  <2>1. expanded' \in 0 .. Len(cameras')
    BY <1>1, <1>2, <1>4, <1>5, <1>6, <1>10
  <2>2. popup'[1] = "deleteCamera" => popup'[2] \in Nat \ {0}
    BY <1>2, <1>3 DEF RowsAreThere
  <2>3. ASSUME popup'[1] = "deleteStream", expanded' # 0
        PROVE  Len(cameras'[expanded'].streams) > 1
    <3>1. expanded' \in 1 .. l /\ expanded \in 1 .. l
      BY <1>1, <1>2, <1>4, <1>5, <1>6, <1>10, <2>1, <2>3
    <3>2. as[expanded'] = cameras[expanded]
      BY <1>1, <1>2, <1>5, <1>7, <3>1
    <3>3. Len(cameras[expanded].streams) > 1
      BY <1>2, <1>3, <1>6, <2>3, <3>1
    <3>. QED  BY <1>4, <1>10, <3>1, <3>2, <3>3
  <2>. QED  BY <2>1, <2>2, <2>3 DEF RowsAreThere
<1>. QED  BY <1>3, <1>4, <1>10, <1>11, <1>12, TableEdited

LEMMA CameraDeleted ==
  ASSUME IInv, DeleteCamera
  PROVE  IInv'
<1>. DEFINE k == popup[2]
            l == Len(cameras)
            as == IF k \in DOMAIN cameras THEN RemoveAt(cameras, k) ELSE cameras
            fs == FixUpCameraData(as)
<1>1. /\ saving = << >> /\ UNCHANGED <<server, saving, loads, saved, crossed>>
      /\ cameras' = fs /\ local' = << >> /\ popup' = None /\ popup[1] = "deleteCamera"
      /\ expanded' = CASE expanded = k -> 0 [] expanded > k -> expanded - 1 [] OTHER -> expanded
  BY DEF DeleteCamera, TableShown, Quiet, requests
<1>2. /\ WellFormed(cameras) /\ cameras \in Seq(Camera) /\ l \in Nat /\ DOMAIN cameras = 1 .. l
      /\ \A m \in 1 .. l :
           /\ cameras[m] \in Camera /\ QuietUnlessSetUp(cameras[m]) /\ HasOneDefault(cameras[m])
      /\ k \in Nat \ {0} /\ expanded \in 0 .. l
  BY <1>1, TableFacts DEF IInv, RowsAreThere
<1>. HIDE DEF l
<1>3. /\ Unnumbered(as)
      /\ Len(as) = IF k \in 1 .. l THEN l - 1 ELSE l
  <2>1. CASE k \in 1 .. l
    <3>1. /\ as \in Seq(Camera) /\ Len(as) = l - 1 /\ DOMAIN as = 1 .. l - 1
          /\ \A j \in 1 .. l - 1 : as[j] = IF j < k THEN cameras[j] ELSE cameras[j + 1]
      BY <1>2, <2>1, RemoveAtAt DEF l
    <3>2. \A j \in 1 .. l - 1 : j \in 1 .. l /\ j + 1 \in 1 .. l
      BY <1>2
    <3>. HIDE DEF as
    <3>. QED  BY <1>2, <2>1, <3>1, <3>2 DEF Unnumbered
  <2>2. CASE k \notin 1 .. l
    BY <1>2, <2>2 DEF Unnumbered, l
  <2>. QED  BY <2>1, <2>2
<1>. HIDE DEF as, k
<1>4. WellFormed(fs) /\ Len(fs) = Len(as)
  BY <1>3, FixUpDataFacts
<1>5. CloneOfItsRow'
  BY <1>1, NoClone
<1>6. RowsAreThere'
  <2>1. popup'[1] = "none"
    BY <1>1 DEF None
  <2>2. expanded' \in 0 .. Len(cameras')
    BY <1>1, <1>2, <1>3, <1>4
  <2>. QED  BY <2>1, <2>2 DEF RowsAreThere
<1>. HIDE DEF fs
<1>. QED  BY <1>1, <1>4, <1>5, <1>6, TableEdited

OnlyDefault(ss, D, k) == \A j \in D : ss[j].default <=> j = k

LEMMA DefaultGiven ==
  ASSUME NEW c, NEW D, NEW k \in D, DOMAIN c.streams = D, OnlyDefault(c.streams, D, k)
  PROVE  HasOneDefault(c)
<1>1. k \in DOMAIN c.streams
  OBVIOUS
<1>2. \A j \in DOMAIN c.streams : c.streams[j].default <=> j = k
  BY DEF OnlyDefault
<1>. QED  BY <1>1, <1>2, Zenon DEF HasOneDefault

LEMMA DefaultOf ==
  ASSUME NEW c, NEW D, DOMAIN c.streams = D, HasOneDefault(c)
  PROVE  \E k \in D : OnlyDefault(c.streams, D, k)
BY Zenon DEF HasOneDefault, OnlyDefault

LEMMA StreamDeleted ==
  ASSUME NEW c \in Camera, QuietUnlessSetUp(c), HasOneDefault(c), Len(c.streams) > 1,
         NEW i \in DOMAIN c.streams
  PROVE  /\ DeleteStream(c, i) \in Camera /\ QuietUnlessSetUp(DeleteStream(c, i))
         /\ HasOneDefault(DeleteStream(c, i))
<1>. DEFINE s == c.streams
            l == Len(s)
            rest == RemoveAt(s, i)
            kept(j) == [rest[j] EXCEPT
                          !.default = @ \/ (s[i].default /\ j = 1),
                          !.trigger = IF rest[j].motion THEN NoKey ELSE @]
            ss == [j \in DOMAIN rest |-> kept(j)]
            d == DeleteStream(c, i)
<1>1. /\ s \in Seq(Stream) /\ l \in Nat /\ DOMAIN s = 1 .. l
      /\ \A j \in 1 .. l : s[j] \in Stream
  BY CameraFacts
<1>2. i \in 1 .. l /\ l > 1
  BY <1>1
<1>3. /\ rest \in Seq(Stream) /\ DOMAIN rest = 1 .. l - 1
      /\ \A j \in 1 .. l - 1 : rest[j] = IF j < i THEN s[j] ELSE s[j + 1]
  BY <1>1, RemoveAtAt
<1>4. d = [c EXCEPT !.streams = ss]
  BY DEF DeleteStream
<1>. HIDE DEF l, rest
<1>5. \A j \in 1 .. l - 1 : rest[j] \in Stream
  BY <1>3, ElementOfSeq, LenProperties
<1>6. \A j \in 1 .. l - 1 :
        /\ kept(j) \in Stream /\ kept(j).motion = rest[j].motion
        /\ kept(j).default = (rest[j].default \/ (s[i].default /\ j = 1))
  <2>. SUFFICES ASSUME NEW j \in 1 .. l - 1
                PROVE  /\ kept(j) \in Stream /\ kept(j).motion = rest[j].motion
                       /\ kept(j).default = (rest[j].default \/ (s[i].default /\ j = 1))
    OBVIOUS
  <2>. DEFINE b == rest[j].default \/ (s[i].default /\ j = 1)
              t == IF rest[j].motion THEN NoKey ELSE rest[j].trigger
              r == rest[j]
  <2>1. b \in BOOLEAN /\ r \in Stream /\ t \in Nat
    BY <1>5 DEF Stream, NoKey
  <2>2. kept(j) = [r EXCEPT !.default = b, !.trigger = t]
    OBVIOUS
  <2>. HIDE DEF b, t, r, kept
  <2>3. kept(j) \in Stream /\ kept(j).motion = r.motion /\ kept(j).default = b
    BY <2>1, <2>2 DEF Stream
  <2>. QED  BY <2>3 DEF b, r
<1>. HIDE DEF kept
<1>7. ss \in Seq(Stream) /\ DOMAIN ss = 1 .. l - 1 /\ \A j \in 1 .. l - 1 : ss[j] = kept(j)
  <2>1. ss = [j \in 1 .. l - 1 |-> kept(j)]
    BY <1>3
  <2>2. ss \in [1 .. l - 1 -> Stream]
    BY <1>6, <2>1
  <2>3. l - 1 \in Nat
    BY <1>1, <1>2
  <2>. HIDE DEF ss
  <2>. QED  BY <2>1, <2>2, <2>3, FunctionIsSeq
<1>. HIDE DEF ss, d
<1>8. d \in Camera /\ d.streams = ss /\ d.type = c.type /\ d.recordingStream = c.recordingStream
  BY <1>4, <1>7, WithStreams
<1>9. QuietUnlessSetUp(d)
  <2>. SUFFICES ASSUME c.type = "none"
                PROVE  d.recordingStream = NoKey /\ \A j \in 1 .. l - 1 : ~ss[j].motion
    BY <1>7, <1>8 DEF QuietUnlessSetUp
  <2>1. c.recordingStream = NoKey /\ \A j \in 1 .. l : ~s[j].motion
    BY <1>1 DEF QuietUnlessSetUp
  <2>2. \A j \in 1 .. l - 1 : j \in 1 .. l /\ j + 1 \in 1 .. l
    BY <1>1
  <2>3. \A j \in 1 .. l - 1 : ~rest[j].motion
    BY <1>3, <2>1, <2>2
  <2>. QED  BY <1>6, <1>7, <1>8, <2>1, <2>3
<1>10. PICK k \in 1 .. l : OnlyDefault(s, 1 .. l, k)
  <2>1. HasOneDefault(c) /\ DOMAIN c.streams = 1 .. l
    BY <1>1
  <2>. QED  BY <2>1, DefaultOf
<1>d. \A j \in 1 .. l : s[j].default <=> j = k
  BY <1>10 DEF OnlyDefault
<1>11. \A j \in 1 .. l - 1 : d.streams[j].default <=> rest[j].default \/ (s[i].default /\ j = 1)
  <2>1. \A j \in 1 .. l - 1 : d.streams[j] = kept(j)
    BY <1>7, <1>8
  <2>. QED  BY <1>6, <2>1, Zenon
<1>12. \A j \in 1 .. l - 1 : rest[j].default <=> (IF j < i THEN j = k ELSE j + 1 = k)
  <2>. SUFFICES ASSUME NEW j \in 1 .. l - 1
                PROVE  rest[j].default <=> (IF j < i THEN j = k ELSE j + 1 = k)
    OBVIOUS
  <2>1. j \in 1 .. l /\ j + 1 \in 1 .. l
    BY <1>1
  <2>2. CASE j < i
    BY <1>3, <1>d, <2>1, <2>2
  <2>3. CASE ~(j < i)
    BY <1>3, <1>d, <2>1, <2>3
  <2>. QED  BY <2>2, <2>3
<1>13. DOMAIN d.streams = 1 .. l - 1
  BY <1>7, <1>8
<1>14. \E k2 \in 1 .. l - 1 : OnlyDefault(d.streams, 1 .. l - 1, k2)
  <2>1. CASE k = i
    <3>1. s[i].default
      BY <1>2, <1>d, <2>1
    <3>2. \A j \in 1 .. l - 1 : ~rest[j].default
      BY <1>1, <1>2, <1>12, <2>1
    <3>3. 1 \in 1 .. l - 1
      BY <1>1, <1>2
    <3>. QED  BY <1>11, <3>1, <3>2, <3>3, Zenon DEF OnlyDefault
  <2>2. CASE k # i
    <3>. DEFINE k2 == IF k < i THEN k ELSE k - 1
    <3>1. k2 \in 1 .. l - 1
      BY <1>1, <1>2, <2>2
    <3>2. ~s[i].default
      BY <1>2, <1>d, <2>2
    <3>3. \A j \in 1 .. l - 1 : rest[j].default <=> j = k2
      BY <1>1, <1>2, <1>12, <2>2
    <3>. HIDE DEF k2
    <3>. QED  BY <1>11, <3>1, <3>2, <3>3, Zenon DEF OnlyDefault
  <2>. QED  BY <2>1, <2>2
<1>15. HasOneDefault(d)
  <2>1. PICK k2 \in 1 .. l - 1 : OnlyDefault(d.streams, 1 .. l - 1, k2)
    BY <1>14
  <2>. QED  BY <1>13, <2>1, DefaultGiven
<1>. QED  BY <1>8, <1>9, <1>15 DEF d

LEMMA AStreamDeleted ==
  ASSUME IInv, DeleteAStream
  PROVE  IInv'
<1>. DEFINE k == expanded
            l == Len(cameras)
            c == DeleteStream(cameras[k], popup[3])
            as == [cameras EXCEPT ![k] = c]
            fs == FixUpCameraData(as)
<1>1. /\ saving = << >> /\ UNCHANGED <<server, saving, loads, saved, crossed, expanded>>
      /\ local' = << >> /\ popup' = None /\ popup[1] = "deleteStream"
      /\ popup[2] = k /\ popup[3] \in DOMAIN cameras[k].streams
      /\ cameras' = FixUpCameraData([cameras EXCEPT ![k] = DeleteStream(@, popup[3])])
  BY DEF DeleteAStream, TableShown, Quiet, requests
<1>2. /\ WellFormed(cameras) /\ cameras \in Seq(Camera) /\ l \in Nat /\ DOMAIN cameras = 1 .. l
      /\ \A m \in 1 .. l :
           /\ cameras[m] \in Camera /\ QuietUnlessSetUp(cameras[m]) /\ HasOneDefault(cameras[m])
      /\ k \in 0 .. l /\ (k # 0 => Len(cameras[k].streams) > 1)
  BY <1>1, TableFacts DEF IInv, RowsAreThere
<1>3. CASE k \in 1 .. l
  <2>1. /\ c \in Camera /\ QuietUnlessSetUp(c) /\ HasOneDefault(c)
    BY <1>1, <1>2, <1>3, StreamDeleted
  <2>2. cameras' = fs
    BY <1>1
  <2>. HIDE DEF c
  <2>3. /\ as \in Seq(Camera) /\ Len(as) = l /\ DOMAIN as = 1 .. l
        /\ \A m \in 1 .. l : as[m] = IF m = k THEN c ELSE cameras[m]
    BY <1>2, <1>3, <2>1, ExceptSeq
  <2>. HIDE DEF as, l
  <2>4. Unnumbered(as)
    BY <1>2, <2>1, <2>3 DEF Unnumbered
  <2>5. WellFormed(fs) /\ Len(fs) = l
    BY <2>3, <2>4, FixUpDataFacts
  <2>6. CloneOfItsRow'
    BY <1>1, NoClone
  <2>7. RowsAreThere'
    <3>1. popup'[1] = "none"
      BY <1>1 DEF None
    <3>2. expanded' \in 0 .. Len(cameras')
      BY <1>1, <1>2, <2>2, <2>5
    <3>. QED  BY <3>1, <3>2 DEF RowsAreThere
  <2>. QED  BY <1>1, <2>2, <2>5, <2>6, <2>7, TableEdited
<1>4. CASE k = 0
  <2>1. as = cameras
    BY <1>2, <1>4
  <2>2. [cameras EXCEPT ![k] = DeleteStream(@, popup[3])] = cameras
    BY <1>2, <1>4
  <2>3. cameras' = FixUpCameraData(cameras)
    BY <1>1, <2>2
  <2>4. Unnumbered(cameras)
    BY <1>2 DEF Unnumbered
  <2>5. WellFormed(cameras') /\ Len(cameras') = l
    BY <2>3, <2>4, FixUpDataFacts
  <2>6. CloneOfItsRow'
    BY <1>1, NoClone
  <2>7. RowsAreThere'
    BY <1>1, <1>2, <2>5 DEF RowsAreThere, None
  <2>. QED  BY <1>1, <2>5, <2>6, <2>7, TableEdited
<1>. QED  BY <1>2, <1>3, <1>4

LEMMA CameraAppended ==
  ASSUME IInv, AddCamera
  PROVE  IInv'
<1>1. /\ saving = << >> /\ UNCHANGED <<server, saving, loads, saved, crossed, expanded, popup>>
      /\ Shows(FixUpCameraData(Append(cameras, Single)))
  BY DEF AddCamera, FooterShown, TableShown, Quiet, requests, Edit
<1>2. WellFormed(cameras') /\ CloneOfItsRow' /\ RowsAreThere'
  BY <1>1, NewCameras, CameraAdded
<1>. QED  BY <1>1, <1>2, TableEdited

LEMMA StreamAppended ==
  ASSUME IInv, AddStream
  PROVE  IInv'
<1>. DEFINE k == expanded
            l == Len(cameras)
            h == Len(cameras[k].streams)
            ss == Append(cameras[k].streams, NewStream(h + 1))
            c == [cameras[k] EXCEPT !.streams = ss, !.valid = FALSE]
            as == [cameras EXCEPT ![k] = c]
            fs == FixUpCameraData(as)
<1>1. /\ saving = << >>
      /\ UNCHANGED <<server, saving, loads, saved, crossed, expanded, local, popup>>
      /\ cameras' = FixUpCameraData([cameras EXCEPT
                      ![k].streams = Append(@, NewStream(Len(@) + 1)), ![k].valid = FALSE])
      /\ k # 0
  BY DEF AddStream, TableShown, Quiet, requests
<1>2. /\ WellFormed(cameras) /\ RowsAreThere
      /\ cameras \in Seq(Camera) /\ l \in Nat /\ DOMAIN cameras = 1 .. l
      /\ \A m \in 1 .. l :
           /\ cameras[m] \in Camera /\ QuietUnlessSetUp(cameras[m]) /\ HasOneDefault(cameras[m])
  BY TableFacts DEF IInv
<1>3. k \in 1 .. l
  BY <1>1, <1>2 DEF RowsAreThere
<1>4. /\ cameras[k].streams \in Seq(Stream) /\ h \in Nat /\ DOMAIN cameras[k].streams = 1 .. h
  BY <1>2, <1>3, CameraFacts
<1>5. /\ NewStream(h + 1) \in Stream /\ ~NewStream(h + 1).default /\ ~NewStream(h + 1).motion
  BY <1>4 DEF NewStream, NoRecording, NoKey, Stream
<1>6. /\ ss \in Seq(Stream) /\ Len(ss) = h + 1 /\ DOMAIN ss = 1 .. h + 1
      /\ \A i \in 1 .. h : ss[i] = cameras[k].streams[i]
      /\ ss[h + 1] = NewStream(h + 1)
  BY <1>4, <1>5, AppendAt
<1>7. fs = cameras'
  <2>1. [cameras EXCEPT ![k].streams = Append(@, NewStream(Len(@) + 1)), ![k].valid = FALSE] = as
    BY <1>2, <1>3 DEF Camera
  <2>. QED  BY <1>1, <2>1
<1>. HIDE DEF ss, h, l
<1>8. /\ c \in Camera /\ c.streams = ss /\ c.type = cameras[k].type
      /\ c.recordingStream = cameras[k].recordingStream
  BY <1>2, <1>3, <1>6 DEF Camera
<1>. HIDE DEF c
<1>9. \A i \in 1 .. h + 1 : i \in 1 .. h \/ i = h + 1
  BY <1>4
<1>10. QuietUnlessSetUp(c)
  BY <1>2, <1>3, <1>4, <1>5, <1>6, <1>8, <1>9 DEF QuietUnlessSetUp
<1>11. HasOneDefault(c)
  <2>1. PICK i \in 1 .. h : OnlyDefault(cameras[k].streams, 1 .. h, i)
    <3>1. HasOneDefault(cameras[k])
      BY <1>2, <1>3
    <3>2. DOMAIN cameras[k].streams = 1 .. h
      BY <1>4
    <3>. QED  BY <3>1, <3>2, DefaultOf
  <2>2. h + 1 # i /\ i \in 1 .. h + 1
    BY <1>4
  <2>3. \A j \in 1 .. h : ss[j].default <=> j = i
    BY <1>6, <2>1 DEF OnlyDefault
  <2>4. ~ss[h + 1].default
    BY <1>5, <1>6
  <2>5. \A j \in 1 .. h + 1 : ss[j].default <=> j = i
    BY <1>9, <2>2, <2>3, <2>4
  <2>6. DOMAIN c.streams = 1 .. h + 1
    BY <1>6, <1>8
  <2>7. OnlyDefault(c.streams, 1 .. h + 1, i)
    BY <1>8, <2>5 DEF OnlyDefault
  <2>. QED  BY <2>2, <2>6, <2>7, DefaultGiven
<1>12. /\ as \in Seq(Camera) /\ Len(as) = l /\ DOMAIN as = 1 .. l
       /\ \A m \in 1 .. l : as[m] = IF m = k THEN c ELSE cameras[m]
  BY <1>2, <1>3, <1>8, ExceptSeq DEF l
<1>. HIDE DEF as
<1>13. Unnumbered(as)
  BY <1>2, <1>8, <1>10, <1>11, <1>12 DEF Unnumbered
<1>14. /\ WellFormed(fs) /\ Len(fs) = l /\ DOMAIN fs = 1 .. l
       /\ \A m \in 1 .. l :
            /\ as[m] \in Camera /\ First(as, m) \in Nat
            /\ fs[m] = FixUpCamera(as[m], m, First(as, m))
            /\ Len(fs[m].streams) = Len(as[m].streams)
            /\ DOMAIN fs[m].streams = DOMAIN as[m].streams
  BY <1>12, <1>13, FixUpDataFacts
<1>. HIDE DEF fs
<1>15. \A m \in 1 .. l : \A i \in DOMAIN fs[m].streams :
         fs[m].streams[i].motion = as[m].streams[i].motion
  <2>. SUFFICES ASSUME NEW m \in 1 .. l, NEW i \in DOMAIN fs[m].streams
                PROVE  fs[m].streams[i].motion = as[m].streams[i].motion
    OBVIOUS
  <2>. DEFINE c1 == as[m]  n1 == First(as, m)
  <2>1. m \in Nat /\ c1 \in Camera /\ n1 \in Nat /\ i \in DOMAIN c1.streams
    <3>1. m \in Nat
      BY <1>2
    <3>2. c1 \in Camera /\ n1 \in Nat
      BY <1>14
    <3>3. DOMAIN fs[m].streams = DOMAIN as[m].streams
      BY <1>14
    <3>. QED  BY <3>1, <3>2, <3>3
  <2>2. fs[m] = FixUpCamera(c1, m, n1)
    BY <1>14
  <2>. HIDE DEF c1, n1
  <2>3. fs[m].streams[i] = FixedUpStream(c1, m, n1, i)
    BY <2>1, <2>2, FixUpCameraFacts
  <2>4. fs[m].streams[i].motion = c1.streams[i].motion
    BY <2>1, <2>3, FixedUpStreamFacts
  <2>. QED  BY <2>4 DEF c1
<1>16. \A m \in 1 .. l :
         /\ Len(cameras[m].streams) \in Nat /\ DOMAIN cameras[m].streams = 1 .. Len(cameras[m].streams)
         /\ Len(fs[m].streams) \in Nat /\ Len(fs[m].streams) >= Len(cameras[m].streams)
         /\ \A i \in DOMAIN fs[m].streams :
              fs[m].streams[i].motion =>
                i \in DOMAIN cameras[m].streams /\ cameras[m].streams[i].motion
  <2>. SUFFICES ASSUME NEW m \in 1 .. l
                PROVE
         /\ Len(cameras[m].streams) \in Nat /\ DOMAIN cameras[m].streams = 1 .. Len(cameras[m].streams)
         /\ Len(fs[m].streams) \in Nat /\ Len(fs[m].streams) >= Len(cameras[m].streams)
         /\ \A i \in DOMAIN fs[m].streams :
              fs[m].streams[i].motion =>
                i \in DOMAIN cameras[m].streams /\ cameras[m].streams[i].motion
    OBVIOUS
  <2>1. /\ Len(cameras[m].streams) \in Nat
        /\ DOMAIN cameras[m].streams = 1 .. Len(cameras[m].streams)
    BY <1>2, CameraFacts
  <2>2. CASE m = k
    <3>1. as[m].streams = ss
      BY <1>8, <1>12, <2>2
    <3>2. Len(fs[m].streams) = h + 1 /\ DOMAIN fs[m].streams = 1 .. h + 1
      BY <1>6, <1>14, <3>1
    <3>3. \A i \in 1 .. h + 1 : fs[m].streams[i].motion = ss[i].motion
      BY <1>15, <3>1, <3>2
    <3>4. \A i \in 1 .. h + 1 : ss[i].motion =>
            i \in DOMAIN cameras[m].streams /\ cameras[m].streams[i].motion
      BY <1>4, <1>5, <1>6, <1>9, <2>2
    <3>5. h = Len(cameras[m].streams)
      BY <2>2 DEF h
    <3>6. \A i \in DOMAIN fs[m].streams :
              fs[m].streams[i].motion =>
                i \in DOMAIN cameras[m].streams /\ cameras[m].streams[i].motion
      BY <3>2, <3>3, <3>4
    <3>7. Len(fs[m].streams) \in Nat /\ Len(fs[m].streams) >= Len(cameras[m].streams)
      BY <1>4, <3>2, <3>5
    <3>. QED  BY <2>1, <3>6, <3>7
  <2>3. CASE m # k
    <3>1. as[m] = cameras[m]
      BY <1>12, <2>3
    <3>2. Len(fs[m].streams) = Len(cameras[m].streams)
          /\ DOMAIN fs[m].streams = DOMAIN cameras[m].streams
      BY <1>14, <3>1
    <3>3. \A i \in DOMAIN fs[m].streams :
            fs[m].streams[i].motion = cameras[m].streams[i].motion
      BY <1>15, <3>1
    <3>4. Len(fs[m].streams) \in Nat /\ Len(fs[m].streams) >= Len(cameras[m].streams)
      BY <2>1, <3>2
    <3>. QED  BY <2>1, <3>2, <3>3, <3>4
  <2>. QED  BY <2>2, <2>3
<1>17. CloneOfItsRow'
  BY <1>1, <1>2, <1>7, <1>14, <1>16, CloneStays
<1>18. RowsAreThere'
  <2>1. Len(cameras') \in Nat /\ Len(cameras') >= Len(cameras)
    BY <1>2, <1>7, <1>14 DEF l
  <2>. QED  BY <1>1, <1>2, <1>7, <1>14, <1>16, <2>1, RowsStay DEF l
<1>. QED  BY <1>1, <1>7, <1>14, <1>17, <1>18, TableEdited

-----------------------------------------------------------------------------
(* The recording dialogue of the table *)

(* The streams of a camera, each changed in its set-up only. *)
LEMMA StreamsSetUp ==
  ASSUME NEW c \in Camera, Numbered(c),
         NEW ss, ss = [i \in DOMAIN c.streams |-> ss[i]],
         \A i \in DOMAIN c.streams : ss[i] \in Stream /\ ss[i].key = c.streams[i].key
  PROVE  /\ ss \in Seq(Stream) /\ Len(ss) = Len(c.streams) /\ DOMAIN ss = DOMAIN c.streams
         /\ \A i \in DOMAIN ss : ss[i].key = i
<1>. DEFINE l == Len(c.streams)
<1>1. l \in Nat /\ DOMAIN c.streams = 1 .. l
  BY CameraFacts
<1>. HIDE DEF l
<1>2. ss \in [1 .. l -> Stream]
  BY <1>1
<1>3. ss \in Seq(Stream) /\ Len(ss) = l /\ DOMAIN ss = 1 .. l
  BY <1>1, <1>2, FunctionIsSeq
<1>. QED  BY <1>1, <1>3 DEF l, Numbered

LEMMA EditedFacts ==
  ASSUME NEW c \in Camera, Numbered(c), QuietUnlessSetUp(c), NEW d \in Edited(c)
  PROVE  /\ d \in Camera /\ Numbered(d) /\ QuietUnlessSetUp(d)
         /\ Len(d.streams) = Len(c.streams)
<1>. DEFINE S == DOMAIN c.streams
<1>0. \A i \in S : c.streams[i] \in Stream /\ i \in Nat
  BY CameraFacts
<1>k. \A k \in KeysOf(c) \cup {NoKey} : k \in Nat
  BY <1>0 DEF KeysOf, NoKey, Stream
<1>s. c.streams \in Seq(Stream)
  BY CameraFacts
<1>1. ASSUME NEW t \in Types, d = SetRecordingType(c, t)
      PROVE  /\ d \in Camera /\ Numbered(d) /\ QuietUnlessSetUp(d)
             /\ Len(d.streams) = Len(c.streams)
  <2>. DEFINE ss == [i \in S |-> [c.streams[i] EXCEPT !.trigger = NoKey, !.motion = FALSE]]
  <2>1. \A i \in S : ss[i] \in Stream /\ ss[i].key = c.streams[i].key /\ ~ss[i].motion
    BY <1>0 DEF Stream, NoKey
  <2>2. d = [[c EXCEPT !.streams = ss]
               EXCEPT !.type = t, !.motionStream = NoKey, !.recordingStream = NoKey,
                      !.topic = FALSE]
    BY <1>1 DEF SetRecordingType, OnStreams
  <2>3. ss = [i \in S |-> ss[i]]
    OBVIOUS
  <2>. HIDE DEF ss
  <2>4. /\ ss \in Seq(Stream) /\ Len(ss) = Len(c.streams) /\ DOMAIN ss = S
        /\ \A i \in DOMAIN ss : ss[i].key = i
    <3>1. ss = [i \in DOMAIN c.streams |-> ss[i]]
      BY <2>3
    <3>2. \A i \in DOMAIN c.streams : ss[i] \in Stream /\ ss[i].key = c.streams[i].key
      BY <2>1
    <3>. HIDE DEF S
    <3>3. /\ ss \in Seq(Stream) /\ Len(ss) = Len(c.streams) /\ DOMAIN ss = DOMAIN c.streams
          /\ \A i \in DOMAIN ss : ss[i].key = i
      BY <3>1, <3>2, StreamsSetUp
    <3>. QED  BY <3>3 DEF S
  <2>5. d \in Camera /\ d.streams = ss /\ d.recordingStream = NoKey
    BY <2>2, <2>4 DEF Camera, NoKey
  <2>. QED  BY <2>1, <2>4, <2>5 DEF Numbered, QuietUnlessSetUp
<1>2. ASSUME NEW k \in KeysOf(c) \cup {NoKey}, d = SetSelectedStream(c, k),
             c.type \in {"ftpTriggered", "pullPointEventTriggered"}
      PROVE  /\ d \in Camera /\ Numbered(d) /\ QuietUnlessSetUp(d)
             /\ Len(d.streams) = Len(c.streams)
  <2>1. k \in Nat
    BY <1>k
  <2>2. d \in Camera /\ d.streams = c.streams /\ d.type = c.type
    BY <1>2, <2>1 DEF Camera, SetSelectedStream
  <2>. QED  BY <1>2, <2>2 DEF Numbered, QuietUnlessSetUp
<1>3. ASSUME NEW on \in BOOLEAN, d = SetSelectedPullPointRecordingTrigger(c, on),
             c.type = "pullPointEventTriggered"
      PROVE  /\ d \in Camera /\ Numbered(d) /\ QuietUnlessSetUp(d)
             /\ Len(d.streams) = Len(c.streams)
  <2>2. d \in Camera /\ d.streams = c.streams /\ d.type = c.type
    BY <1>3 DEF Camera, SetSelectedPullPointRecordingTrigger
  <2>. QED  BY <1>3, <2>2 DEF Numbered, QuietUnlessSetUp
<1>4. ASSUME NEW k \in KeysOf(c) \cup {NoKey}, d = SetStreamForMotionDetection(c, k),
             c.type = "motionService"
      PROVE  /\ d \in Camera /\ Numbered(d) /\ QuietUnlessSetUp(d)
             /\ Len(d.streams) = Len(c.streams)
  <2>. DEFINE ss == [i \in S |-> [c.streams[i] EXCEPT !.motion = (c.streams[i].key = k)]]
  <2>1. \A i \in S : ss[i] \in Stream /\ ss[i].key = c.streams[i].key
    <3>. SUFFICES ASSUME NEW i \in S
                  PROVE  ss[i] \in Stream /\ ss[i].key = c.streams[i].key
      OBVIOUS
    <3>. DEFINE b == (c.streams[i].key = k)
                s == c.streams[i]
    <3>1. b \in BOOLEAN /\ s \in Stream /\ ss[i] = [s EXCEPT !.motion = b]
      BY <1>0
    <3>. HIDE DEF b, s
    <3>2. [s EXCEPT !.motion = b] \in Stream /\ [s EXCEPT !.motion = b].key = s.key
      BY <3>1 DEF Stream
    <3>. QED  BY <3>1, <3>2 DEF s
  <2>2. d = [[c EXCEPT !.streams = ss] EXCEPT !.motionStream = k]
    BY <1>4 DEF SetStreamForMotionDetection, OnStreams
  <2>3. ss = [i \in S |-> ss[i]]
    OBVIOUS
  <2>. HIDE DEF ss
  <2>4. /\ ss \in Seq(Stream) /\ Len(ss) = Len(c.streams) /\ DOMAIN ss = S
        /\ \A i \in DOMAIN ss : ss[i].key = i
    <3>1. ss = [i \in DOMAIN c.streams |-> ss[i]]
      BY <2>3
    <3>2. \A i \in DOMAIN c.streams : ss[i] \in Stream /\ ss[i].key = c.streams[i].key
      BY <2>1
    <3>. HIDE DEF S
    <3>3. /\ ss \in Seq(Stream) /\ Len(ss) = Len(c.streams) /\ DOMAIN ss = DOMAIN c.streams
          /\ \A i \in DOMAIN ss : ss[i].key = i
      BY <3>1, <3>2, StreamsSetUp
    <3>. QED  BY <3>3 DEF S
  <2>5. d \in Camera /\ d.streams = ss /\ d.type = c.type
    BY <1>k, <2>2, <2>4 DEF Camera
  <2>. QED  BY <1>4, <2>4, <2>5 DEF Numbered, QuietUnlessSetUp
<1>5. ASSUME NEW k \in (KeysOf(c) \ {c.motionStream}) \cup {NoKey},
             d = UpdateRecordingTrigger(c, k), c.type = "motionService"
      PROVE  /\ d \in Camera /\ Numbered(d) /\ QuietUnlessSetUp(d)
             /\ Len(d.streams) = Len(c.streams)
  <2>. DEFINE ss == [i \in S |-> [c.streams[i] EXCEPT !.trigger =
                                    IF c.streams[i].key = c.motionStream THEN k ELSE NoKey]]
  <2>0. k \in Nat
    BY <1>k
  <2>1. \A i \in S : ss[i] \in Stream /\ ss[i].key = c.streams[i].key
    BY <1>0, <2>0 DEF Stream, NoKey
  <2>2. d = [c EXCEPT !.streams = ss]
    BY <1>5 DEF UpdateRecordingTrigger, OnStreams
  <2>3. ss = [i \in S |-> ss[i]]
    OBVIOUS
  <2>. HIDE DEF ss
  <2>4. /\ ss \in Seq(Stream) /\ Len(ss) = Len(c.streams) /\ DOMAIN ss = S
        /\ \A i \in DOMAIN ss : ss[i].key = i
    <3>1. ss = [i \in DOMAIN c.streams |-> ss[i]]
      BY <2>3
    <3>2. \A i \in DOMAIN c.streams : ss[i] \in Stream /\ ss[i].key = c.streams[i].key
      BY <2>1
    <3>. HIDE DEF S
    <3>3. /\ ss \in Seq(Stream) /\ Len(ss) = Len(c.streams) /\ DOMAIN ss = DOMAIN c.streams
          /\ \A i \in DOMAIN ss : ss[i].key = i
      BY <3>1, <3>2, StreamsSetUp
    <3>. QED  BY <3>3 DEF S
  <2>5. d \in Camera /\ d.streams = ss /\ d.type = c.type
    BY <2>2, <2>4, WithStreams
  <2>. QED  BY <1>5, <2>4, <2>5 DEF Numbered, QuietUnlessSetUp
<1>. QED  BY <1>1, <1>2, <1>3, <1>4, <1>5 DEF Edited

LEMMA RecordingEdited ==
  ASSUME IInv, EditRecording
  PROVE  IInv'
<1>1. /\ saving = << >> /\ local # << >>
      /\ UNCHANGED <<server, saving, loads, saved, crossed, expanded, cameras, popup>>
  BY DEF EditRecording, TableShown, Quiet, requests
<1>2. PICK d \in Edited(local[1]) : local' = <<d>>
  BY DEF EditRecording
<1>3. /\ local \in Seq(Camera) /\ Len(local) <= 1
      /\ popup[1] = "recording" /\ popup[2] \in DOMAIN cameras
      /\ Numbered(local[1]) /\ QuietUnlessSetUp(local[1])
      /\ LET ss == cameras[popup[2]].streams IN
         /\ Len(local[1].streams) <= Len(ss)
         /\ \A i \in DOMAIN ss : i > Len(local[1].streams) => ~ss[i].motion
  BY <1>1 DEF IInv, CloneOfItsRow
<1>4. local[1] \in Camera
  BY <1>1, <1>3
<1>5. /\ d \in Camera /\ Numbered(d) /\ QuietUnlessSetUp(d)
      /\ Len(d.streams) = Len(local[1].streams)
  BY <1>3, <1>4, EditedFacts
<1>6. local' \in Seq(Camera) /\ Len(local') = 1 /\ local'[1] = d
  BY <1>2, <1>5
<1>7. CloneOfItsRow'
  BY <1>1, <1>3, <1>5, <1>6 DEF CloneOfItsRow
<1>8. WellFormed(cameras') /\ RowsAreThere'
  BY <1>1 DEF IInv, RowsAreThere
<1>. QED  BY <1>1, <1>7, <1>8, TableEdited

LEMMA ConfirmedFacts ==
  ASSUME NEW c \in Camera, NEW l \in Camera, Numbered(c), Numbered(l),
         HasOneDefault(c), QuietUnlessSetUp(l),
         \A i \in DOMAIN c.streams : i > Len(l.streams) => ~c.streams[i].motion
  PROVE  LET d == ConfirmChanges(c, l) IN
         /\ d \in Camera /\ Numbered(d) /\ QuietUnlessSetUp(d) /\ HasOneDefault(d)
         /\ Len(d.streams) = Len(c.streams)
<1>. DEFINE S == DOMAIN c.streams
            h == Len(l.streams)
            From(s) == {i \in DOMAIN l.streams : l.streams[i].key = s.key}
            Copied(s) == IF From(s) = {} THEN s
                         ELSE LET t == l.streams[CHOOSE i \in From(s) : TRUE]
                              IN  [s EXCEPT !.rec = t.rec, !.motion = t.motion,
                                            !.trigger = t.trigger]
            ss == [i \in S |-> Copied(c.streams[i])]
            d == ConfirmChanges(c, l)
<1>1. /\ h \in Nat /\ DOMAIN l.streams = 1 .. h
      /\ \A i \in 1 .. h : l.streams[i] \in Stream /\ l.streams[i].key = i
      /\ \A i \in S : c.streams[i] \in Stream /\ c.streams[i].key = i /\ i \in Nat \ {0}
  BY CameraFacts DEF Numbered
<1>2. d = [[c EXCEPT !.streams = ss]
             EXCEPT !.type = l.type, !.motionStream = l.motionStream,
                    !.recordingStream = l.recordingStream, !.topic = l.topic]
  BY DEF ConfirmChanges, OnStreams
<1>. HIDE DEF h, d
<1>3. \A i \in S : From(c.streams[i]) = IF i \in 1 .. h THEN {i} ELSE {}
  <2>. SUFFICES ASSUME NEW i \in S
                PROVE  From(c.streams[i]) = IF i \in 1 .. h THEN {i} ELSE {}
    OBVIOUS
  <2>1. From(c.streams[i]) = {j \in 1 .. h : j = i}
    BY <1>1
  <2>. QED  BY <2>1
<1>4. \A i \in S :
        /\ Copied(c.streams[i]) \in Stream
        /\ Copied(c.streams[i]).key = i
        /\ Copied(c.streams[i]).default = c.streams[i].default
        /\ Copied(c.streams[i]).motion =
             IF i \in 1 .. h THEN l.streams[i].motion ELSE c.streams[i].motion
  <2>. SUFFICES ASSUME NEW i \in S
                PROVE  /\ Copied(c.streams[i]) \in Stream
                       /\ Copied(c.streams[i]).key = i
                       /\ Copied(c.streams[i]).default = c.streams[i].default
                       /\ Copied(c.streams[i]).motion =
                            IF i \in 1 .. h THEN l.streams[i].motion ELSE c.streams[i].motion
    OBVIOUS
  <2>1. CASE i \in 1 .. h
    <3>. DEFINE s == c.streams[i]
                t == l.streams[i]
    <3>1. (CHOOSE j \in From(s) : TRUE) = i /\ From(s) # {}
      BY <1>3, <2>1
    <3>2. Copied(s) = [s EXCEPT !.rec = t.rec, !.motion = t.motion, !.trigger = t.trigger]
      BY <3>1
    <3>3. s \in Stream /\ t \in Stream /\ s.key = i
      BY <1>1, <2>1
    <3>. HIDE DEF s, t, Copied
    <3>4. /\ Copied(s) \in Stream /\ Copied(s).key = i /\ Copied(s).default = s.default
          /\ Copied(s).motion = t.motion
      BY <3>2, <3>3 DEF Stream
    <3>. QED  BY <2>1, <3>4 DEF s, t
  <2>2. CASE i \notin 1 .. h
    <3>1. Copied(c.streams[i]) = c.streams[i]
      BY <1>3, <2>2
    <3>. HIDE DEF Copied
    <3>. QED  BY <1>1, <2>2, <3>1
  <2>. QED  BY <2>1, <2>2
<1>. HIDE DEF Copied, From
<1>5. \A i \in S : ss[i] = Copied(c.streams[i])
  OBVIOUS
<1>6. ss = [i \in S |-> ss[i]]
  OBVIOUS
<1>. HIDE DEF ss
<1>7. /\ ss \in Seq(Stream) /\ Len(ss) = Len(c.streams) /\ DOMAIN ss = S
      /\ \A i \in DOMAIN ss : ss[i].key = i
  <2>1. ss = [i \in DOMAIN c.streams |-> ss[i]]
    BY <1>6
  <2>2. \A i \in DOMAIN c.streams : ss[i] \in Stream /\ ss[i].key = c.streams[i].key
    BY <1>1, <1>4, <1>5
  <2>. HIDE DEF S
  <2>3. /\ ss \in Seq(Stream) /\ Len(ss) = Len(c.streams) /\ DOMAIN ss = DOMAIN c.streams
        /\ \A i \in DOMAIN ss : ss[i].key = i
    BY <2>1, <2>2, StreamsSetUp
  <2>. QED  BY <2>3 DEF S
<1>8. d \in Camera /\ d.streams = ss /\ d.type = l.type /\ d.recordingStream = l.recordingStream
  BY <1>2, <1>7 DEF Camera
<1>9. Numbered(d)
  BY <1>7, <1>8 DEF Numbered
<1>10. QuietUnlessSetUp(d)
  <2>. SUFFICES ASSUME l.type = "none"
                PROVE  l.recordingStream = NoKey /\ \A i \in S : ~ss[i].motion
    BY <1>7, <1>8 DEF QuietUnlessSetUp
  <2>1. l.recordingStream = NoKey /\ \A i \in 1 .. h : ~l.streams[i].motion
    BY <1>1 DEF QuietUnlessSetUp
  <2>2. \A i \in S : i \notin 1 .. h => ~c.streams[i].motion
    BY <1>1 DEF h
  <2>3. \A i \in S : ~ss[i].motion
    <3>. SUFFICES ASSUME NEW i \in S
                  PROVE  ~ss[i].motion
      OBVIOUS
    <3>1. ss[i].motion = IF i \in 1 .. h THEN l.streams[i].motion ELSE c.streams[i].motion
      BY <1>4, <1>5
    <3>2. CASE i \in 1 .. h
      BY <2>1, <3>1, <3>2
    <3>3. CASE i \notin 1 .. h
      BY <2>2, <3>1, <3>3
    <3>. QED  BY <3>2, <3>3
  <2>. QED  BY <2>1, <2>3
<1>11. HasOneDefault(d)
  <2>1. PICK k \in S : OnlyDefault(c.streams, S, k)
    BY DefaultOf
  <2>2. \A i \in S : d.streams[i].default = c.streams[i].default
    BY <1>4, <1>5, <1>8
  <2>3. OnlyDefault(d.streams, S, k)
    BY <2>1, <2>2, Zenon DEF OnlyDefault
  <2>4. DOMAIN d.streams = S
    BY <1>7, <1>8
  <2>. QED  BY <2>3, <2>4, DefaultGiven
<1>. QED  BY <1>7, <1>8, <1>9, <1>10, <1>11 DEF d

LEMMA RecordingConfirmed ==
  ASSUME IInv, ConfirmRecording
  PROVE  IInv'
<1>. DEFINE n == popup[2]
            d == ConfirmChanges(cameras[n], local[1])
<1>1. /\ saving = << >> /\ local # << >>
      /\ UNCHANGED <<server, saving, loads, saved, crossed, expanded>>
      /\ cameras' = [cameras EXCEPT ![n] = d] /\ popup' = None /\ local' = << >>
  BY DEF ConfirmRecording, TableShown, Quiet, requests
<1>2. /\ local \in Seq(Camera) /\ n \in DOMAIN cameras
      /\ Numbered(local[1]) /\ QuietUnlessSetUp(local[1])
      /\ \A i \in DOMAIN cameras[n].streams :
           i > Len(local[1].streams) => ~cameras[n].streams[i].motion
  BY <1>1 DEF IInv, CloneOfItsRow
<1>3. local[1] \in Camera
  BY <1>1, <1>2
<1>4. /\ WellFormed(cameras) /\ RowsAreThere
      /\ cameras \in Seq(Camera) /\ Len(cameras) \in Nat /\ DOMAIN cameras = 1 .. Len(cameras)
      /\ \A m \in 1 .. Len(cameras) :
           /\ cameras[m] \in Camera /\ Numbered(cameras[m]) /\ QuietUnlessSetUp(cameras[m])
           /\ HasOneDefault(cameras[m])
  BY TableFacts DEF IInv
<1>5. d \in Camera /\ Numbered(d) /\ QuietUnlessSetUp(d) /\ HasOneDefault(d)
  BY <1>2, <1>3, <1>4, ConfirmedFacts
<1>. HIDE DEF d, n
<1>6. /\ cameras' \in Seq(Camera) /\ Len(cameras') = Len(cameras)
      /\ DOMAIN cameras' = DOMAIN cameras
      /\ \A m \in DOMAIN cameras : cameras'[m] = IF m = n THEN d ELSE cameras[m]
  BY <1>1, <1>2, <1>4, <1>5, ExceptSeq
<1>7. WellFormed(cameras')
  BY <1>4, <1>5, <1>6 DEF WellFormed
<1>8. CloneOfItsRow'
  BY <1>1, NoClone
<1>9. RowsAreThere'
  BY <1>1, <1>4, <1>6 DEF RowsAreThere, None
<1>. QED  BY <1>1, <1>7, <1>8, <1>9, TableEdited
-----------------------------------------------------------------------------
(* What leaves the table as it is *)

(* With the same cameras and rows, only the requests are at stake. *)
LEMMA TableStays ==
  ASSUME IInv, UNCHANGED <<cameras, expanded>>, popup' = None \/ UNCHANGED popup,
         local' = << >> \/ UNCHANGED <<local, popup>>
  PROVE  WellFormed(cameras') /\ CloneOfItsRow' /\ RowsAreThere'
<1>1. None[1] = "none"
  BY DEF None
<1>2. CloneOfItsRow'
  <2>1. CASE local' = << >>
    BY <2>1, NoClone
  <2>2. CASE UNCHANGED <<local, popup>>
    <3>1. CloneOfItsRow /\ UNCHANGED <<local, popup, cameras>>
      BY <2>2 DEF IInv
    <3>. QED  BY <3>1 DEF CloneOfItsRow
  <2>. QED  BY <2>1, <2>2
<1>3. RowsAreThere'
  BY <1>1 DEF IInv, RowsAreThere
<1>. QED  BY <1>2, <1>3 DEF IInv, WellFormed

LEMMA StreamsExpanded ==
  ASSUME IInv, Expand
  PROVE  IInv'
<1>1. /\ saving = << >> /\ UNCHANGED <<server, saving, loads, saved, crossed, cameras>>
      /\ expanded' \in DOMAIN cameras \cup {0}
  BY DEF Expand, TableShown, Quiet, requests
<1>2. WellFormed(cameras) /\ Len(cameras) \in Nat /\ DOMAIN cameras = 1 .. Len(cameras)
  BY TableFacts DEF IInv
<1>3. None[1] = "none"
  BY DEF None
<1>4. CloneOfItsRow'
  <2>1. CASE local' = << >>
    BY <2>1, NoClone
  <2>2. CASE UNCHANGED <<popup, local>>
    <3>1. CloneOfItsRow /\ UNCHANGED <<local, popup, cameras>>
      BY <1>1, <2>2 DEF IInv
    <3>. QED  BY <3>1 DEF CloneOfItsRow
  <2>. QED  BY <2>1, <2>2 DEF Expand
<1>5. RowsAreThere'
  BY <1>1, <1>2, <1>3 DEF Expand, RowsAreThere
<1>. QED  BY <1>1, <1>2, <1>4, <1>5, TableEdited

LEMMA DialogueToggled ==
  ASSUME IInv, Toggle
  PROVE  IInv'
<1>1. /\ saving = << >> /\ UNCHANGED <<server, saving, loads, saved, crossed, cameras, expanded>>
  BY DEF Toggle, TableShown, Quiet, requests
<1>2. /\ WellFormed(cameras) /\ RowsAreThere
      /\ Len(cameras) \in Nat /\ DOMAIN cameras = 1 .. Len(cameras)
      /\ \A n \in 1 .. Len(cameras) :
           cameras[n] \in Camera /\ Numbered(cameras[n]) /\ QuietUnlessSetUp(cameras[n])
  BY TableFacts DEF IInv
<1>3. None[1] = "none"
  BY DEF None
<1>4. ASSUME NEW n \in DOMAIN cameras, popup' = Toggled(<<"recording", n>>),
             local' = IF RecordingSetupOf(n) THEN << >> ELSE <<cameras[n]>>
      PROVE  CloneOfItsRow' /\ RowsAreThere'
  <2>1. CASE RecordingSetupOf(n)
    <3>1. popup' = None /\ local' = << >>
      BY <1>4, <2>1 DEF RecordingSetupOf, Toggled
    <3>. QED  BY <1>1, <3>1, TableStays
  <2>2. CASE ~RecordingSetupOf(n)
    <3>1. popup' = <<"recording", n>> /\ local' = <<cameras[n]>>
      BY <1>4, <2>2 DEF RecordingSetupOf, Toggled
    <3>2. popup'[1] = "recording" /\ popup'[2] = n
      BY <3>1
    <3>3. CloneOfItsRow'
      <4>. DEFINE c == cameras[n]
      <4>2. c \in Camera /\ Numbered(c) /\ QuietUnlessSetUp(c)
        BY <1>2
      <4>3. Len(c.streams) \in Nat /\ DOMAIN c.streams = 1 .. Len(c.streams)
        BY <4>2, CameraFacts
      <4>. HIDE DEF c
      <4>4. local' \in Seq(Camera) /\ Len(local') = 1 /\ local'[1] = c
        BY <3>1, <4>2 DEF c
      <4>5. cameras'[popup'[2]] = c /\ popup'[2] \in DOMAIN cameras'
        BY <1>1, <3>2 DEF c
      <4>6. Len(local'[1].streams) <= Len(c.streams)
        BY <4>3, <4>4
      <4>7. \A i \in DOMAIN c.streams : ~(i > Len(local'[1].streams))
        BY <4>3, <4>4
      <4>. QED  BY <3>2, <4>2, <4>4, <4>5, <4>6, <4>7 DEF CloneOfItsRow
    <3>4. RowsAreThere'
      BY <1>1, <1>2, <3>2 DEF RowsAreThere
    <3>. QED  BY <3>3, <3>4
  <2>. QED  BY <2>1, <2>2
<1>5. ASSUME NEW n \in DOMAIN cameras, popup' = Toggled(<<"deleteCamera", n>>), local' = << >>
      PROVE  CloneOfItsRow' /\ RowsAreThere'
  <2>1. popup' = None \/ popup' = <<"deleteCamera", n>>
    BY <1>5 DEF Toggled
  <2>2. CASE popup' = <<"deleteCamera", n>>
    <3>1. popup'[1] = "deleteCamera" /\ popup'[2] = n /\ n \in Nat \ {0}
      BY <1>2, <2>2
    <3>. QED  BY <1>1, <1>2, <1>5, <3>1, NoClone DEF RowsAreThere
  <2>. QED  BY <1>1, <1>5, <2>1, <2>2, TableStays
<1>6. ASSUME NEW n \in DOMAIN cameras, NEW i, popup' = Toggled(<<"deleteStream", n, i>>),
             local' = << >>, expanded = n, Len(cameras[n].streams) > 1
      PROVE  CloneOfItsRow' /\ RowsAreThere'
  <2>1. popup' = None \/ popup' = <<"deleteStream", n, i>>
    BY <1>6 DEF Toggled
  <2>2. CASE popup' = <<"deleteStream", n, i>>
    <3>1. popup'[1] = "deleteStream"
      BY <2>2
    <3>. QED  BY <1>1, <1>2, <1>6, <3>1, NoClone DEF RowsAreThere
  <2>. QED  BY <1>1, <1>6, <2>1, <2>2, TableStays
<1>7. ASSUME popup' = Toggled(<<"addCamera">>), local' = << >>
      PROVE  CloneOfItsRow' /\ RowsAreThere'
  <2>1. popup' = None \/ popup' = <<"addCamera">>
    BY <1>7 DEF Toggled
  <2>2. CASE popup' = <<"addCamera">>
    <3>1. popup'[1] = "addCamera"
      BY <2>2
    <3>. QED  BY <1>1, <1>2, <1>7, <3>1, NoClone DEF RowsAreThere
  <2>. QED  BY <1>1, <1>7, <2>1, <2>2, TableStays
<1>8. CloneOfItsRow' /\ RowsAreThere'
  BY <1>4, <1>5, <1>6, <1>7 DEF Toggle
<1>. QED  BY <1>1, <1>2, <1>8, TableEdited

LEMMA Asks ==
  ASSUME IInv, Ask \/ Cancel \/ StartFindCameraDetails
  PROVE  IInv'
<1>1. /\ saving = << >> /\ UNCHANGED <<server, saving, loads, saved, crossed, cameras, expanded>>
      /\ popup' = None \/ UNCHANGED popup
      /\ local' = << >> \/ UNCHANGED <<local, popup>> \/ (popup' = None /\ UNCHANGED local)
  BY DEF Ask, Cancel, StartFindCameraDetails, FooterShown, TableShown, Quiet, requests
<1>2. CASE local' = << >> \/ UNCHANGED <<local, popup>>
  BY <1>1, <1>2, TableStays, TableEdited
<1>3. CASE popup' = None /\ UNCHANGED local /\ local # << >>
  <2>1. StartFindCameraDetails \/ UNCHANGED popup
    BY <1>3 DEF Ask, Cancel
  <2>2. popup[1] = "recording"
    BY <1>3 DEF IInv, CloneOfItsRow
  <2>3. <<"addCamera">>[1] = "addCamera" /\ None[1] = "none"
    BY DEF None
  <2>4. popup # <<"addCamera">> /\ popup # None
    BY <2>2, <2>3
  <2>5. UNCHANGED popup
    BY <2>1, <2>4 DEF StartFindCameraDetails
  <2>. QED  BY <1>3, <2>4, <2>5
<1>. QED  BY <1>1, <1>2, <1>3

LEMMA NewCreated ==
  ASSUME IInv, CreateNew
  PROVE  IInv'
<1>. DEFINE cs == <<Single>>
            fs == FixUpCameraData(cs)
<1>1. /\ saving = << >> /\ UNCHANGED <<server, saving, loads, saved, crossed, popup>>
      /\ cameras' = fs /\ Rows(fs) /\ expanded' = 0
  BY DEF CreateNew, FooterShown, TableShown, Quiet, requests, Edit, Shows
<1>2. Unnumbered(cs)
  BY NewCameras DEF Unnumbered
<1>3. WellFormed(fs) /\ Len(fs) \in Nat
  <2>. HIDE DEF cs
  <2>. QED  BY <1>2, FixUpDataFacts
<1>. HIDE DEF fs
<1>4. RowsAreThere'
  BY <1>1, <1>3 DEF IInv, RowsAreThere
<1>. QED  BY <1>1, <1>3, <1>4, RowsMade, TableEdited

(* What is found takes the place of the table. *)
LEMMA TableReplaced ==
  ASSUME IInv, NEW cs, Unnumbered(cs), Replaced(FixUpCameraData(cs)), UNCHANGED popup
  PROVE  WellFormed(cameras') /\ CloneOfItsRow' /\ RowsAreThere'
<1>. DEFINE fs == FixUpCameraData(cs)
<1>1. WellFormed(fs) /\ Len(fs) \in Nat
  BY FixUpDataFacts
<1>2. cameras' = fs /\ Rows(fs) /\ expanded' = 0
  BY DEF Replaced, Shows
<1>. HIDE DEF fs
<1>3. RowsAreThere'
  BY <1>1, <1>2 DEF IInv, RowsAreThere
<1>. QED  BY <1>1, <1>2, <1>3, RowsMade

-----------------------------------------------------------------------------
(* The requests *)

LEMMA SavingStarted ==
  ASSUME IInv, CommitConfig
  PROVE  IInv'
<1>. DEFINE fs == FixUpCameraData(cameras)
<1>1. /\ saving = << >> /\ ~getting /\ ~discovering
      /\ UNCHANGED <<server, loads, saved, crossed, expanded, popup, getting, discovering>>
      /\ cameras' = fs /\ saving' = <<fs>> /\ local' = << >> /\ ~retrying'
  BY DEF CommitConfig, FooterShown, TableShown, Quiet
<1>2. /\ WellFormed(cameras) /\ RowsAreThere /\ cameras \in Seq(Camera)
      /\ Len(cameras) \in Nat /\ DOMAIN cameras = 1 .. Len(cameras)
      /\ \A n \in 1 .. Len(cameras) : cameras[n] \in Camera
  BY TableFacts DEF IInv
<1>3. Unnumbered(cameras)
  BY <1>2 DEF Unnumbered, WellFormed
<1>4. /\ WellFormed(fs) /\ Len(fs) = Len(cameras)
      /\ \A n \in 1 .. Len(cameras) : Len(fs[n].streams) = Len(cameras[n].streams)
  BY <1>3, FixUpDataFacts
<1>5. Kept(<<fs>>)
  BY <1>2, KeptFixedUp
<1>. HIDE DEF fs
<1>6. \A n \in DOMAIN cameras :
        /\ Len(cameras[n].streams) \in Nat
        /\ Len(cameras'[n].streams) \in Nat /\ Len(cameras'[n].streams) >= Len(cameras[n].streams)
  BY <1>1, <1>2, <1>4, CameraFacts
<1>7. RowsAreThere'
  BY <1>1, <1>2, <1>4, <1>6, RowsStay
<1>8. SavesTheTable'
  BY <1>1 DEF SavesTheTable
<1>9. Kept(server)' /\ Kept(saving)' /\ Kept(loads.cams)'
  BY <1>1, <1>5 DEF IInv, Kept
<1>. QED  BY <1>1, <1>4, <1>7, <1>8, <1>9, NoClone DEF IInv, WellFormed

LEMMA SavingDone ==
  ASSUME IInv, CommitDone
  PROVE  IInv'
<1>1. /\ saving # << >> /\ saving' = << >>
      /\ UNCHANGED <<expanded, cameras, local, popup, loads, crossed>>
      /\ \/ server' = saving /\ saved' = <<cameras>>
         \/ UNCHANGED <<server, saved>>
  BY DEF CommitDone
<1>2. crossed \/ saving = <<cameras>>
  BY <1>1 DEF IInv, SavesTheTable
<1>3. Kept(server') /\ Kept(saving') /\ Kept(loads.cams)'
  BY <1>1, KeptEmpty DEF IInv
<1>4. ~crossed' /\ saved' # << >> => server' = saved'
  BY <1>1, <1>2 DEF IInv
<1>5. SavesTheTable'
  BY <1>1 DEF SavesTheTable
<1>6. WellFormed(cameras') /\ CloneOfItsRow' /\ RowsAreThere'
  BY <1>1, TableStays
<1>. QED  BY <1>3, <1>4, <1>5, <1>6 DEF IInv, WellFormed, Kept

LEMMA LoadStarted ==
  ASSUME IInv, RestoreConfig \/ LoadRead
  PROVE  IInv'
<1>1. /\ UNCHANGED <<server, saved, crossed, saving, expanded, cameras, local, popup,
                     discovering, getting, retrying>>
      /\ loads'.cams \in {<< >>, server}
  BY DEF RestoreConfig, LoadRead, Quiet, Asked
<1>2. Kept(server') /\ Kept(saving') /\ Kept(loads'.cams)
  BY <1>1, KeptEmpty DEF IInv
<1>3. SavesTheTable'
  BY <1>1 DEF IInv, SavesTheTable
<1>4. WellFormed(cameras') /\ CloneOfItsRow' /\ RowsAreThere'
  BY <1>1, TableStays
<1>. QED  BY <1>1, <1>2, <1>3, <1>4 DEF IInv, WellFormed, Kept

LEMMA Loaded ==
  ASSUME IInv, LoadDone
  PROVE  IInv'
<1>1. /\ UNCHANGED <<server, popup, saving, discovering, getting, retrying>>
      /\ loads' = NoLoad
      /\ crossed' = (crossed \/ saving # << >> \/ loads.cams # server)
  BY DEF LoadDone
<1>2. Kept(server) /\ Kept(saving) /\ Kept(loads.cams)
  BY DEF IInv
<1>3. loads'.cams = << >>
  BY <1>1 DEF NoLoad
<1>4. Kept(server') /\ Kept(saving') /\ Kept(loads'.cams)
  BY <1>1, <1>2, <1>3, KeptEmpty
<1>5. SavesTheTable'
  BY <1>1 DEF IInv, SavesTheTable
<1>6. CASE loads.cams # << >> /\ Replaced(FixUpCameraData(loads.cams[1])) /\ saved' = <<cameras'>>
  <2>. DEFINE cs == loads.cams[1]
  <2>1. WellFormed(cs) /\ FixUpCameraData(cs) = cs
    BY <1>2, <1>6 DEF Kept
  <2>2. Unnumbered(cs)
    BY <2>1 DEF Unnumbered, WellFormed
  <2>3. cameras' = cs
    BY <1>6, <2>1 DEF Replaced, Shows
  <2>4. WellFormed(cameras') /\ CloneOfItsRow' /\ RowsAreThere'
    BY <1>1, <1>6, <2>2, TableReplaced
  <2>5. loads.cams = <<cs>>
    <3>1. loads.cams \in Seq(Seq(Camera)) /\ Len(loads.cams) <= 1
      BY <1>2 DEF Kept
    <3>. QED  BY <1>6, <3>1
  <2>6. ~crossed' => server' = saved'
    BY <1>1, <1>6, <2>3, <2>5
  <2>. QED  BY <1>4, <1>5, <2>4, <2>6 DEF IInv, WellFormed, Kept
<1>7. CASE Replaced(FixUpCameraData(<<Single>>)) /\ UNCHANGED saved
  <2>1. Unnumbered(<<Single>>)
    BY NewCameras DEF Unnumbered
  <2>2. WellFormed(cameras') /\ CloneOfItsRow' /\ RowsAreThere'
    BY <1>1, <1>7, <2>1, TableReplaced
  <2>3. ~crossed' /\ saved' # << >> => server' = saved'
    BY <1>1, <1>7 DEF IInv
  <2>. QED  BY <1>4, <1>5, <2>2, <2>3 DEF IInv, WellFormed, Kept
<1>. QED  BY <1>6, <1>7 DEF LoadDone

LEMMA SearchStarted ==
  ASSUME IInv, StartOnvifSearch
  PROVE  IInv'
<1>1. /\ saving = << >> /\ UNCHANGED <<server, saving, loads, saved, crossed, cameras, expanded, popup>>
      /\ local' = << >>
  BY DEF StartOnvifSearch, FooterShown, TableShown
<1>. QED  BY <1>1, TableStays, TableEdited

LEMMA Discovered ==
  ASSUME IInv, DiscoverDone
  PROVE  IInv'
<1>1. /\ saving = << >> /\ UNCHANGED <<server, saving, loads, saved, crossed, popup>>
  BY DEF DiscoverDone, IInv, SavesTheTable
<1>2. ASSUME NEW ns \in SearchResults,
             Replaced(FixUpCameraData([k \in DOMAIN ns |-> Device(ns[k])]))
      PROVE  IInv'
  <2>. DEFINE found == [k \in DOMAIN ns |-> Device(ns[k])]
  <2>1. /\ Len(ns) \in Nat /\ DOMAIN ns = 1 .. Len(ns)
        /\ \A k \in DOMAIN ns : ns[k] \in Nat \ {0}
    <3>1. ns \in Seq(Nat \ {0})
      BY ConfigurationsAssumption
    <3>. QED  BY <3>1, LenProperties, ElementOfSeq
  <2>2. found \in [1 .. Len(ns) -> Camera]
    BY <2>1, NewCameras
  <2>3. found \in Seq(Camera) /\ DOMAIN found = 1 .. Len(ns)
    BY <2>1, <2>2, FunctionIsSeq
  <2>4. Unnumbered(found)
    BY <2>1, <2>3, NewCameras DEF Unnumbered
  <2>. HIDE DEF found
  <2>5. Replaced(FixUpCameraData(found))
    BY <1>2 DEF found
  <2>. QED  BY <1>1, <2>4, <2>5, TableReplaced, TableEdited
<1>3. CASE UNCHANGED <<cameras, local, expanded>>
  BY <1>1, <1>3, TableStays, TableEdited
<1>. QED  BY <1>2, <1>3 DEF DiscoverDone

LEMMA DetailsFound ==
  ASSUME IInv, DetailsDone
  PROVE  IInv'
<1>1. /\ saving = << >> /\ UNCHANGED <<server, saving, loads, saved, crossed, popup, expanded>>
  BY DEF DetailsDone, IInv, SavesTheTable
<1>2. CASE Shows(FixUpCameraData(Append(cameras, Device(1))))
  BY <1>1, <1>2, NewCameras, CameraAdded, TableEdited
<1>3. CASE UNCHANGED <<cameras, local>>
  BY <1>1, <1>3, TableStays, TableEdited
<1>. QED  BY <1>2, <1>3 DEF DetailsDone

(* The page is entered, and left. *)
LEMMA Entered ==
  ASSUME cameras = << >>, local = << >>, expanded = 0, popup = None, saved = << >>,
         saving = << >>, loads.cams = << >>, Kept(server)
  PROVE  IInv
<1>1. WellFormed(cameras) /\ Len(cameras) = 0
  BY DEF WellFormed
<1>2. None[1] = "none"
  BY DEF None
<1>. QED  BY <1>1, <1>2, KeptEmpty DEF IInv, CloneOfItsRow, SavesTheTable, RowsAreThere

LEMMA PageLeft ==
  ASSUME IInv, CanDeactivate
  PROVE  IInv'
<1>1. /\ server' \in {server, saving}
      /\ cameras' = << >> /\ local' = << >> /\ expanded' = 0 /\ popup' = None /\ saved' = << >>
      /\ saving' = << >> /\ loads' = Asked
  BY DEF CanDeactivate
<1>2. Kept(server') /\ Kept(saving') /\ Kept(loads'.cams)
  BY <1>1, KeptEmpty DEF IInv, Asked
<1>3. WellFormed(cameras') /\ Len(cameras') = 0
  BY <1>1 DEF WellFormed
<1>4. None[1] = "none"
  BY DEF None
<1>5. SavesTheTable' /\ CloneOfItsRow' /\ RowsAreThere'
  BY <1>1, <1>3, <1>4 DEF CloneOfItsRow, SavesTheTable, RowsAreThere
<1>. QED  BY <1>1, <1>2, <1>3, <1>5 DEF IInv, WellFormed, Kept

LEMMA ConfigInit ==
  ASSUME Init
  PROVE  IInv
<1>1. ASSUME NEW cs \in Configurations
      PROVE  Kept(<<cs>>)
  <2>1. WellFormed(cs) /\ FixUpCameraData(cs) = cs
    BY ConfigurationsAssumption DEF WellFormed
  <2>. QED  BY <2>1 DEF Kept, WellFormed
<1>2. Kept(server) /\ loads.cams = << >>
  BY <1>1, KeptEmpty DEF Init, Asked
<1>. QED  BY <1>2, Entered DEF Init

LEMMA ConfigStutter ==
  ASSUME IInv, UNCHANGED csVars
  PROVE  IInv'
BY DEF csVars, requests, IInv, WellFormed, Kept, CloneOfItsRow, SavesTheTable, RowsAreThere

LEMMA ConfigStep ==
  ASSUME IInv, Next
  PROVE  IInv'
<1>1. CASE ConfirmDeactivate
  <2>1. UNCHANGED <<cameras, saved, server, local, expanded, popup, requests, crossed>>
    BY <1>1 DEF ConfirmDeactivate
  <2>. QED  BY <2>1 DEF requests, IInv, WellFormed, Kept, CloneOfItsRow, SavesTheTable, RowsAreThere
<1>. QED  BY <1>1, FieldUpdated, DefaultSet, CamerasMoved, CameraDeleted, AStreamDeleted,
             CameraAppended, StreamAppended, RecordingEdited, RecordingConfirmed,
             StreamsExpanded, DialogueToggled, Asks, NewCreated, SavingStarted, SavingDone,
             LoadStarted, Loaded, SearchStarted, Discovered, DetailsFound, PageLeft
         DEF Next

-----------------------------------------------------------------------------
(* The parts together. *)

(* A step is one of a part, and the other parts stay as they are. *)
LEMMA PartsMoveAlone ==
  ASSUME PartNext \/ UNCHANGED configVars
  PROVE  /\ OF!Next \/ UNCHANGED ofVars
         /\ CC!Next \/ UNCHANGED ccVars
         /\ AG!Next \/ UNCHANGED ahgVars
         /\ Next \/ UNCHANGED csVars
         /\ RD!Next \/ UNCHANGED dgVars
BY DEF PartNext, configVars

PartsInv == OF!IInv /\ CC!IInv /\ AG!IInv

LEMMA PartsInvariance == PartSpec => []PartsInv
<1>1. PartInit => PartsInv
  BY FailuresInit, CredentialsInit, HostingInit DEF PartInit, PartsInv
<1>2. ASSUME PartsInv, PartNext \/ UNCHANGED configVars
      PROVE  PartsInv'
  <2>1. OF!IInv /\ CC!IInv /\ AG!IInv
    BY <1>2 DEF PartsInv
  <2>2. OF!IInv'
    BY <1>2, <2>1, PartsMoveAlone, FailuresStep, FailuresStutter
  <2>3. CC!IInv'
    BY <1>2, <2>1, PartsMoveAlone, CredentialsStep, CredentialsStutter
  <2>4. AG!IInv'
    BY <1>2, <2>1, PartsMoveAlone, HostingStep, HostingStutter
  <2>. QED  BY <2>2, <2>3, <2>4 DEF PartsInv
<1>. QED  BY <1>1, <1>2, PTL DEF PartSpec

(***************************************************************************)
(* However answers overtake each other, rows shift and other users do the  *)
(* same: a device is in the table twice only if it was tried again or came *)
(* after its URL was checked; a camera keeps the credentials that were     *)
(* confirmed for it, and its row shows its own snapshot; a user who has    *)
(* the hosting has the tab of the device that is hosted, and a connection  *)
(* that is listed is carried to it (OnvifFailures, CameraCredentials,      *)
(* AdminHosting).                                                          *)
(***************************************************************************)
THEOREM OfTheRightDevice == PartSpec => []RightDevice
<1>1. PartsInv => RightDevice
  BY SnapshotShown, HostingIsAgreed
  DEF PartsInv, RightDevice, OF!IInv, CC!IInv, AG!IInv
<1>. QED  BY <1>1, PartsInvariance, PTL

(***************************************************************************)
(* A device that could not be read leaves the list into the table only, or *)
(* with the list itself (discover, findCameraDetails).                     *)
(***************************************************************************)
THEOREM FailuresAreKept == PartSpec => FailuresStayListed
<1>1. PartsInv /\ [PartNext]_configVars => [OF!LeavesListForTable]_ofVars
  <2>. SUFFICES ASSUME PartsInv, PartNext \/ UNCHANGED configVars
                PROVE  OF!LeavesListForTable
    OBVIOUS
  <2>. QED  BY PartsMoveAlone, FailuresLeave DEF PartsInv
<1>2. ofVars = OF!ofVars
  BY DEF ofVars, OF!ofVars
<1>. QED
  BY <1>1, PartsInvariance, PTL
  DEF PartSpec, FailuresStayListed, OF!FailuresStayListed, ofVars, OF!ofVars

SavedInv == IInv /\ RD!IInv

LEMMA SavedInvariance == PartSpec => []SavedInv
<1>1. PartInit => SavedInv
  BY ConfigInit, DialogueInit DEF PartInit, SavedInv
<1>2. ASSUME SavedInv, PartNext \/ UNCHANGED configVars
      PROVE  SavedInv'
  <2>1. IInv /\ RD!IInv
    BY <1>2 DEF SavedInv
  <2>2. IInv'
    BY <1>2, <2>1, PartsMoveAlone, ConfigStep, ConfigStutter
  <2>3. RD!IInv'
    BY <1>2, <2>1, PartsMoveAlone, DialogueStep, DialogueStutter
  <2>. QED  BY <2>2, <2>3 DEF SavedInv
<1>. QED  BY <1>1, <1>2, PTL DEF PartSpec

(***************************************************************************)
(* What the server is given is what was entered: every camera has its one  *)
(* default stream; a stream records only by its camera's set-up, and       *)
(* itself, in a directory of its own; the page that may be left without a  *)
(* question is as the server has it; and a set-up is confirmed whole, but  *)
(* for a mask file that an error was reported of (ConfigSetup,             *)
(* RecordingDialogue).                                                     *)
(***************************************************************************)
THEOREM SavedIsEntered == PartSpec => []SavedAsEntered
<1>1. SavedInv => SavedAsEntered
  BY DefaultIsOne, WhatRecordsIsItself, LeavesWhatWasSaved
  DEF SavedInv, SavedAsEntered, RD!IInv
<1>. QED  BY <1>1, SavedInvariance, PTL
=============================================================================
