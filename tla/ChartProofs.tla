---------------------------- MODULE ChartProofs -----------------------------
(***************************************************************************)
(* What a chart shows, for any reports, any failed transactions and any    *)
(* restarts: which row the browser takes a series to belong to, and what   *)
(* follows of the lines it merges series into and of the groups of the     *)
(* "by type" chart; and how a line is cut at the gaps between its samples. *)
(***************************************************************************)
EXTENDS TypeView, StoreProofs

-----------------------------------------------------------------------------
(* Texts. *)

LEMMA FirstTextIs ==
    ASSUME NEW n \in Nat, NEW texts, DOMAIN texts = 1..n
    PROVE  /\ \A i \in 1..n :
                 texts[i] # NoText /\ (\A j \in 1..(i - 1) : texts[j] = NoText)
                 => FirstText(texts) = texts[i]
           /\ (\A i \in 1..n : texts[i] = NoText) => FirstText(texts) = NoText
<1> DEFINE some == { i \in DOMAIN texts : texts[i] # NoText }
<1>1. ASSUME NEW i \in 1..n, texts[i] # NoText, \A j \in 1..(i - 1) : texts[j] = NoText
      PROVE  FirstText(texts) = texts[i]
  <2>1. i \in some /\ \A j \in some : i <= j
    BY <1>1
  <2>2. \A x \in some : (\A j \in some : x <= j) => x = i
    BY <2>1
  <2>3. Min(some) = i
    BY <2>1, <2>2 DEF Min
  <2> QED BY <2>1, <2>3 DEF FirstText
<1>2. ASSUME \A i \in 1..n : texts[i] = NoText PROVE FirstText(texts) = NoText
  BY <1>2 DEF FirstText
<1> QED BY <1>1, <1>2

LEMMA FirstOfTwo ==
    ASSUME NEW a, NEW b
    PROVE  FirstText(<<a, b>>) = IF a # NoText THEN a ELSE b
<1> DEFINE texts == <<a, b>>
<1>1. DOMAIN texts = 1..2 /\ texts[1] = a /\ texts[2] = b
  OBVIOUS
<1> HIDE DEF texts
<1>2. /\ \A i \in 1..2 :
            texts[i] # NoText /\ (\A j \in 1..(i - 1) : texts[j] = NoText)
            => FirstText(texts) = texts[i]
      /\ (\A i \in 1..2 : texts[i] = NoText) => FirstText(texts) = NoText
  BY <1>1, FirstTextIs
<1>3. a # NoText => FirstText(texts) = a
  BY <1>1, <1>2
<1>4. a = NoText /\ b # NoText => FirstText(texts) = b
  BY <1>1, <1>2
<1>5. a = NoText /\ b = NoText => FirstText(texts) = NoText
  BY <1>1, <1>2
<1> QED BY <1>3, <1>4, <1>5 DEF texts

(* The text a series is merged by is never empty when it has an id.        *)
LEMMA FirstOfFour ==
    ASSUME NEW a, NEW b, NEW c, NEW d
    PROVE  /\ a # NoText => FirstText(<<a, b, c, d>>) = a
           /\ a = NoText /\ b = NoText
              => FirstText(<<a, b, c, d>>) = IF c # NoText THEN c ELSE d
<1> DEFINE texts == <<a, b, c, d>>
<1>1. /\ DOMAIN texts = 1..4
      /\ texts[1] = a /\ texts[2] = b /\ texts[3] = c /\ texts[4] = d
  OBVIOUS
<1> HIDE DEF texts
<1>2. /\ \A i \in 1..4 :
            texts[i] # NoText /\ (\A j \in 1..(i - 1) : texts[j] = NoText)
            => FirstText(texts) = texts[i]
      /\ (\A i \in 1..4 : texts[i] = NoText) => FirstText(texts) = NoText
  BY <1>1, FirstTextIs
<1>3. a # NoText => FirstText(texts) = a
  BY <1>1, <1>2
<1>4. a = NoText /\ b = NoText /\ c # NoText => FirstText(texts) = c
  BY <1>1, <1>2
<1>5. a = NoText /\ b = NoText /\ c = NoText /\ d # NoText => FirstText(texts) = d
  BY <1>1, <1>2
<1>6. a = NoText /\ b = NoText /\ c = NoText /\ d = NoText => FirstText(texts) = NoText
  BY <1>1, <1>2
<1> QED BY <1>3, <1>4, <1>5, <1>6 DEF texts

LEMMA NamesAndIds ==
    /\ NoText = <<"ip", None>>
    /\ \A n \in HostNames :
          /\ Name(n) = <<"name", n>> /\ Name(n) # NoText
          /\ Clean(Name(n)) = Name(n)
          /\ Clean(<<"host", n>>) = Name(n)
          /\ LowerName(Name(n)) = Name(HostFold[n])
          /\ LowerName(<<"host", n>>) = Name(HostFold[n])
          /\ HostFold[n] \in HostNames
          /\ BadLabel(Name(HostFold[n])) <=> HostFold[n] \in BadLabels
    /\ Name(None) = NoText
    /\ \A x : /\ Clean(<<"mac", x>>) = <<"mac", x>> /\ LowerName(<<"mac", x>>) = <<"mac", x>>
              /\ Clean(<<"sn", x>>) = <<"sn", x>> /\ LowerName(<<"sn", x>>) = <<"sn", x>>
              /\ Clean(<<"ip", x>>) = <<"ip", x>> /\ LowerName(<<"ip", x>>) = <<"ip", x>>
              /\ BadLabel(<<"mac", x>>) /\ BadLabel(<<"sn", x>>) /\ BadLabel(<<"ip", x>>)
<1>1. NoText = <<"ip", None>> /\ Name(None) = NoText
  BY DEF NoText, NoID, Name
<1>2. ASSUME NEW n \in HostNames
      PROVE  /\ Name(n) = <<"name", n>> /\ Name(n) # NoText
             /\ HostFold[n] \in HostNames /\ HostFold[HostFold[n]] = HostFold[n]
  BY <1>1, IdentityAssumption DEF Name
<1>3. ASSUME NEW n \in HostNames
      PROVE  /\ Clean(Name(n)) = Name(n)
             /\ Clean(<<"host", n>>) = Name(n)
  BY <1>2 DEF Clean
<1>4. ASSUME NEW n \in HostNames
      PROVE  /\ LowerName(Name(n)) = Name(HostFold[n])
             /\ LowerName(<<"host", n>>) = Name(HostFold[n])
  BY <1>2, <1>3 DEF LowerName
<1>5. ASSUME NEW n \in HostNames
      PROVE  BadLabel(Name(HostFold[n])) <=> HostFold[n] \in BadLabels
  BY <1>2 DEF BadLabel
<1>6. ASSUME NEW x
      PROVE  /\ Clean(<<"mac", x>>) = <<"mac", x>> /\ LowerName(<<"mac", x>>) = <<"mac", x>>
             /\ Clean(<<"sn", x>>) = <<"sn", x>> /\ LowerName(<<"sn", x>>) = <<"sn", x>>
             /\ Clean(<<"ip", x>>) = <<"ip", x>> /\ LowerName(<<"ip", x>>) = <<"ip", x>>
             /\ BadLabel(<<"mac", x>>) /\ BadLabel(<<"sn", x>>) /\ BadLabel(<<"ip", x>>)
  BY DEF Clean, LowerName, BadLabel
<1> QED BY <1>1, <1>2, <1>3, <1>4, <1>5, <1>6

-----------------------------------------------------------------------------
(* The row of a series.                                                    *)

LEMMA LiveRowsIs ==
    ASSUME NEW id
    PROVE  LiveRows(id) =
             IF ById(id) # {} THEN { {row} : row \in ById(id) }
             ELSE IF ByMAC(id) # {} THEN { {row} : row \in ByMAC(id) }
             ELSE IF ByIP(id) # {} THEN { {row} : row \in ByIP(id) }
             ELSE IF ByName(FirstText(<<SeriesLabel(id), id>>)) # {}
             THEN { {row} : row \in ByName(FirstText(<<SeriesLabel(id), id>>)) }
             ELSE {{}}
<1> DEFINE tier == <<ById(id), ByMAC(id), ByIP(id), ByName(FirstText(<<SeriesLabel(id), id>>))>>
           hits == { i \in 1..4 : tier[i] # {} }
<1>1. LiveRows(id) = IF hits = {} THEN {{}} ELSE { {row} : row \in tier[Min(hits)] }
  BY DEF LiveRows
<1>2. /\ tier[1] = ById(id) /\ tier[2] = ByMAC(id) /\ tier[3] = ByIP(id)
      /\ tier[4] = ByName(FirstText(<<SeriesLabel(id), id>>))
  OBVIOUS
<1> HIDE DEF tier
<1>3. ASSUME NEW i \in 1..4, tier[i] # {}, \A j \in 1..(i - 1) : tier[j] = {}
      PROVE  LiveRows(id) = { {row} : row \in tier[i] }
  <2>1. i \in hits /\ \A j \in hits : i <= j
    BY <1>3
  <2>2. \A x \in hits : (\A j \in hits : x <= j) => x = i
    BY <2>1
  <2>3. Min(hits) = i
    BY <2>1, <2>2 DEF Min
  <2> QED BY <1>1, <2>1, <2>3
<1>4. ASSUME \A i \in 1..4 : tier[i] = {} PROVE LiveRows(id) = {{}}
  BY <1>1, <1>4
<1> HIDE DEF hits
<1>5. CASE tier[1] # {}
  BY <1>2, <1>3, <1>5
<1>6. CASE tier[1] = {} /\ tier[2] # {}
  BY <1>2, <1>3, <1>6
<1>7. CASE tier[1] = {} /\ tier[2] = {} /\ tier[3] # {}
  BY <1>2, <1>3, <1>7
<1>8. CASE tier[1] = {} /\ tier[2] = {} /\ tier[3] = {} /\ tier[4] # {}
  BY <1>2, <1>3, <1>8
<1>9. CASE tier[1] = {} /\ tier[2] = {} /\ tier[3] = {} /\ tier[4] = {}
  BY <1>2, <1>4, <1>9
<1> QED BY <1>5, <1>6, <1>7, <1>8, <1>9

(* The id of a report is a name the browser reads as one, or no name.      *)
LEMMA IdText ==
    ASSUME Identified, NEW e \in Reports, NEW id, id = StableID(e)
    PROVE  /\ id # NoText /\ id # NoID
           /\ \/ /\ DistinctiveHostname(e.host) \in HostNames
                 /\ HostFold[DistinctiveHostname(e.host)] = DistinctiveHostname(e.host)
                 /\ id = <<"host", DistinctiveHostname(e.host)>>
                 /\ DistinctiveHostname(e.host) # None
                 /\ DistinctiveHostname(e.host) \notin GenericHosts
              \/ /\ id[1] \in {"mac", "sn", "ip"}
                 /\ Clean(id) = id /\ LowerName(id) = id /\ BadLabel(id)
<1>1. e \in Report /\ e.host \in Optional(HostNames)
  BY FleetAssumption, ReportFields
<1>2. CASE DistinctiveHostname(e.host) # None
  BY <1>1, <1>2, IdentityAssumption
     DEF DistinctiveHostname, StableID, Identified, NoText, NoID, Optional
<1>3. CASE DistinctiveHostname(e.host) = None
  <2>1. PICK x : id = <<"mac", x>> \/ id = <<"sn", x>> \/ id = <<"ip", x>>
    BY <1>3 DEF StableID
  <2>2. id # NoID
    BY DEF Identified
  <2>3. Clean(id) = id /\ LowerName(id) = id /\ BadLabel(id)
    BY <2>1, NamesAndIds
  <2>4. id[1] \in {"mac", "sn", "ip"}
    BY <2>1
  <2> QED BY <2>2, <2>3, <2>4 DEF NoText
<1> QED BY <1>2, <1>3

(* The row i is of the box that sent report e, and stored under the id of  *)
(* a report of that box.                                                   *)
RowOfBox(e, i) ==
    /\ i \in DOMAIN miners
    /\ \E c \in Reports :
          /\ c.box = e.box /\ StableID(c) = i
          /\ miners[i].box = c.box /\ miners[i].host = c.host

(* The row i was made by a poll of its address that failed.                *)
Ghost(i) ==
    /\ i \in DOMAIN miners
    /\ miners[i].host = None /\ miners[i].mac = None /\ miners[i].box = None
    /\ i = <<"ip", miners[i].ip>>

LEMMA RowOrigin ==
    ASSUME OriginInv, NEW i \in DOMAIN miners
    PROVE  \/ \E c \in Reports :
                 /\ StableID(c) = i
                 /\ miners[i].ip = c.ip /\ miners[i].host = c.host
                 /\ NormalizeMAC(miners[i].mac) = NormalizeMAC(c.mac)
                 /\ miners[i].box = c.box
           \/ Ghost(i)
<1>1. StableID(miners[i]) = i /\ FromReport(miners[i])
  BY DEF OriginInv, FleetInv, KeyedByIdentity, RowsReported
<1>2. ASSUME NEW c \in Reports,
             miners[i].ip = c.ip, miners[i].host = c.host, miners[i].serial = c.serial,
             NormalizeMAC(miners[i].mac) = NormalizeMAC(c.mac)
      PROVE  StableID(c) = i
  BY <1>1, <1>2 DEF StableID
<1>3. ASSUME miners[i].host = None, miners[i].mac = None, miners[i].serial = None,
             miners[i].box = None
      PROVE  Ghost(i)
  BY <1>1, <1>3 DEF Ghost, StableID, DistinctiveHostname, NormalizeMAC
<1> QED BY <1>1, <1>2, <1>3 DEF FromReport

(* A row with the name, as the browser compares names.                     *)
LEMMA SameRowName ==
    ASSUME OriginInv, NEW i \in DOMAIN miners, NEW n \in HostNames,
           n \notin GenericHosts, RowName(i) = Name(n)
    PROVE  DistinctiveHostname(miners[i].host) = n /\ i = <<"host", n>>
<1>1. miners[i].host \in Optional(HostNames) /\ StableID(miners[i]) = i
  BY RowFields DEF OriginInv, FleetInv, FleetTypeOK, KeyedByIdentity
<1>2. miners[i].host # None
  <2> SUFFICES ASSUME miners[i].host = None PROVE FALSE
    OBVIOUS
  <2>1. RowName(i) = LowerName(NoText)
    BY NamesAndIds DEF RowName
  <2>2. LowerName(NoText) = NoText
    BY NamesAndIds
  <2> QED BY <2>1, <2>2, NamesAndIds
<1>3. miners[i].host \in HostNames
  BY <1>1, <1>2 DEF Optional
<1>4. RowName(i) = Name(HostFold[miners[i].host]) /\ HostFold[miners[i].host] \in HostNames
  BY <1>3, NamesAndIds DEF RowName
<1>5. Name(HostFold[miners[i].host]) = <<"name", HostFold[miners[i].host]>> /\ Name(n) = <<"name", n>>
  BY <1>4, NamesAndIds
<1>9. <<"name", HostFold[miners[i].host]>> = <<"name", n>>
  BY <1>4, <1>5
<1>6. HostFold[miners[i].host] = n
  BY <1>9
<1>7. n # None
  BY IdentityAssumption
<1>8. DistinctiveHostname(miners[i].host) = n
  BY <1>2, <1>6 DEF DistinctiveHostname
<1> QED BY <1>1, <1>7, <1>8 DEF StableID

(* Whichever of its four tables finds the row, the browser finds a row of  *)
(* the device that has the id, when no part of an identity is shared.      *)
LEMMA LiveIsOwn ==
    ASSUME OwnIdentity, Identified, OriginInv, NEW e \in Reports,
           NEW live \in LiveRows(StableID(e)), NEW i \in live
    PROVE  RowOfBox(e, i) \/ (Ghost(i) /\ i = StableID(e))
<1> DEFINE id == StableID(e)
           text == FirstText(<<SeriesLabel(id), id>>)
<1>1. \/ i \in ById(id) \/ i \in ByMAC(id) \/ i \in ByIP(id)
      \/ ById(id) = {} /\ i \in ByName(text)
  BY LiveRowsIs
<1>2. i \in DOMAIN miners
  BY <1>1 DEF ById, ByMAC, ByIP, ByName
<1>3. /\ id # NoText /\ id # NoID
      /\ \/ /\ DistinctiveHostname(e.host) \in HostNames
            /\ HostFold[DistinctiveHostname(e.host)] = DistinctiveHostname(e.host)
            /\ id = <<"host", DistinctiveHostname(e.host)>>
            /\ DistinctiveHostname(e.host) # None
            /\ DistinctiveHostname(e.host) \notin GenericHosts
         \/ /\ id[1] \in {"mac", "sn", "ip"}
            /\ Clean(id) = id /\ LowerName(id) = id /\ BadLabel(id)
  BY IdText
<1>4. ASSUME NEW c \in Reports, StableID(c) = i, miners[i].host = c.host,
             miners[i].box = c.box, Shares(c, e)
      PROVE  RowOfBox(e, i)
  BY <1>2, <1>4 DEF OwnIdentity, RowOfBox
<1>5. CASE i = id
  <2>1. ASSUME NEW c \in Reports, StableID(c) = i PROVE Shares(c, e)
    BY <1>5, <2>1 DEF Shares
  <2> QED BY <1>2, <1>4, <1>5, <2>1, RowOrigin
<1>6. ASSUME id = <<"host", DistinctiveHostname(e.host)>>,
             DistinctiveHostname(e.host) \in HostNames,
             DistinctiveHostname(e.host) \notin GenericHosts,
             DistinctiveHostname(e.host) # None,
             RowName(i) = Name(DistinctiveHostname(e.host))
      PROVE  i = id
  BY <1>2, <1>6, SameRowName
<1>7. CASE i \in ById(id) /\ i # id
  <2>1. id[1] = "host" /\ RowName(i) = Clean(id)
    BY <1>7 DEF ById
  <2>2. id = <<"host", DistinctiveHostname(e.host)>> /\ DistinctiveHostname(e.host) \in HostNames
    BY <1>3, <2>1
  <2>3. Clean(id) = Name(DistinctiveHostname(e.host))
    BY <2>2, NamesAndIds
  <2> QED BY <1>3, <1>6, <1>7, <2>1, <2>2, <2>3
<1>8. CASE i \in ByMAC(id)
  <2>1. id[1] = "mac" /\ miners[i].mac = id[2]
    BY <1>8 DEF ByMAC
  <2>2. id = <<"mac", NormalizeMAC(e.mac)>> /\ NormalizeMAC(e.mac) # None
    BY <2>1, <1>3 DEF StableID
  <2>3. miners[i].mac = NormalizeMAC(e.mac)
    BY <2>1, <2>2
  <2>4. NormalizeMAC(NormalizeMAC(e.mac)) = NormalizeMAC(e.mac)
    <3>1. e.mac \in Optional(MACs)
      BY FleetAssumption, ReportFields
    <3> QED BY <2>2, <3>1, IdentityAssumption DEF NormalizeMAC, Optional
  <2>5. ~Ghost(i)
    BY <2>2, <2>3 DEF Ghost
  <2>6. ASSUME NEW c \in Reports, NormalizeMAC(miners[i].mac) = NormalizeMAC(c.mac)
        PROVE  Shares(c, e)
    BY <2>2, <2>3, <2>4, <2>6 DEF Shares
  <2> QED BY <1>2, <1>4, <2>5, <2>6, RowOrigin
<1>9. CASE i \in ByIP(id)
  <2>1. id[1] = "ip" /\ miners[i].ip = id[2]
    BY <1>9 DEF ByIP
  <2>2. id = <<"ip", e.ip>>
    BY <2>1, <1>3 DEF StableID
  <2>3. miners[i].ip = e.ip /\ e.ip # None
    BY <2>1, <2>2, <1>3 DEF NoID
  <2>4. Ghost(i) => i = id
    BY <2>2, <2>3 DEF Ghost
  <2>5. ASSUME NEW c \in Reports, miners[i].ip = c.ip PROVE Shares(c, e)
    BY <2>3, <2>5 DEF Shares
  <2> QED BY <1>2, <1>4, <2>4, <2>5, RowOrigin
<1>10. CASE ById(id) = {} /\ i \in ByName(text)
  <2>1. id \notin DOMAIN miners
    BY <1>3, <1>10 DEF ById
  <2>2. text = id
    BY <1>3, <2>1, FirstOfTwo DEF SeriesLabel
  <2>3. miners[i].host # None /\ RowName(i) = LowerName(id)
    BY <1>10, <2>2 DEF ByName
  <2>4. \E n \in HostNames : RowName(i) = <<"name", n>>
    <3>1. miners[i].host \in HostNames
      BY <1>2, <2>3, RowFields DEF OriginInv, FleetInv, FleetTypeOK, Optional
    <3>2. RowName(i) = Name(HostFold[miners[i].host]) /\ HostFold[miners[i].host] \in HostNames
      BY <3>1, NamesAndIds DEF RowName
    <3> QED BY <3>2, NamesAndIds
  <2>5. ~(id[1] \in {"mac", "sn", "ip"} /\ LowerName(id) = id)
    BY <2>3, <2>4
  <2>6. /\ id = <<"host", DistinctiveHostname(e.host)>> /\ DistinctiveHostname(e.host) \in HostNames
        /\ HostFold[DistinctiveHostname(e.host)] = DistinctiveHostname(e.host)
        /\ DistinctiveHostname(e.host) # None
        /\ DistinctiveHostname(e.host) \notin GenericHosts
    BY <1>3, <2>5
  <2>7. LowerName(id) = Name(DistinctiveHostname(e.host))
    BY <2>6, NamesAndIds
  <2> QED BY <1>2, <1>6, <2>1, <2>3, <2>6, <2>7
<1> QED BY <1>1, <1>5, <1>7, <1>8, <1>9, <1>10

-----------------------------------------------------------------------------
(* The samples of a series.                                                *)

(* A series with an id has the samples of the device with that id.         *)
OwnSeries ==
    \A id \in SeriesIds(0, 0) : \E e \in Reports :
        StableID(e) = id /\ \A p \in SeriesPoints(id, 0, 0) : p.box = e.box

LEMMA OwnSeriesAlways ==
    ASSUME OwnIdentity
    PROVE  StoreSpec => []OwnSeries
<1>1. CASE UseSQLite
  <2>1. OwnInv => OwnSeries
    <3> SUFFICES ASSUME OwnInv, NEW id \in SeriesIds(0, 0)
                 PROVE  \E e \in Reports :
                           StableID(e) = id /\ \A p \in SeriesPoints(id, 0, 0) : p.box = e.box
      BY DEF OwnSeries
    <3>1. PICK r \in db : r.id = id
      BY <1>1 DEF SeriesIds
    <3>2. PICK e \in Reports : StableID(e) = id /\ e.box = r.box
      BY <3>1 DEF OwnInv, OwnSamples
    <3>3. ASSUME NEW p \in SeriesPoints(id, 0, 0) PROVE p.box = e.box
      <4>1. PICK q \in db : q.id = id /\ p = [t |-> q.t, box |-> q.box]
        BY <1>1 DEF SeriesPoints
      <4>2. PICK f \in Reports : StableID(f) = id /\ f.box = q.box
        BY <4>1 DEF OwnInv, OwnSamples
      <4>3. f.box = e.box
        BY <3>2, <4>2 DEF OwnIdentity, Shares
      <4> QED BY <4>1, <4>2, <4>3
    <3> QED BY <3>2, <3>3
  <2> QED BY <1>1, <2>1, OwnInvAlways, PTL
<1>2. CASE ~UseSQLite
  <2>1. MemInv /\ OwnPoints => OwnSeries
    <3> SUFFICES ASSUME MemInv, OwnPoints, NEW id \in SeriesIds(0, 0)
                 PROVE  \E e \in Reports :
                           StableID(e) = id /\ \A p \in SeriesPoints(id, 0, 0) : p.box = e.box
      BY DEF OwnSeries
    <3>1. id \in DOMAIN history
      BY <1>2 DEF SeriesIds
    <3>2. PICK e \in Reports : StableID(e) = id
      BY <3>1 DEF MemInv
    <3>3. ASSUME NEW p \in SeriesPoints(id, 0, 0) PROVE p.box = e.box
      <4>1. p \in ToSet(history[id])
        BY <1>2 DEF SeriesPoints
      <4>2. PICK f \in Reports : StableID(f) = id /\ f.box = p.box
        BY <3>1, <4>1 DEF OwnPoints
      <4> QED BY <3>2, <4>2 DEF OwnIdentity, Shares
    <3> QED BY <3>2, <3>3
  <2> QED BY <1>2, <2>1, OwnPointsAlways, MemInvAlways, PTL
<1> QED BY <1>1, <1>2

-----------------------------------------------------------------------------
(* The groups of the "by type" chart.                                      *)

LEMMA LiveRowsAre ==
    ASSUME NEW id, NEW live \in LiveRows(id)
    PROVE  \/ live = {} /\ ById(id) = {}
           \/ \E i \in DOMAIN miners :
                 live = {i} /\ (ById(id) = {} \/ i \in ById(id))
<1>1. \/ live = {} /\ ById(id) = {}
      \/ \E i \in ById(id) : live = {i}
      \/ ById(id) = {} /\ \E i \in ByMAC(id) : live = {i}
      \/ ById(id) = {} /\ \E i \in ByIP(id) : live = {i}
      \/ ById(id) = {} /\ \E i \in ByName(FirstText(<<SeriesLabel(id), id>>)) : live = {i}
  BY LiveRowsIs
<1> QED BY <1>1 DEF ById, ByMAC, ByIP, ByName

(* The model of a row of a box is the model of that box.                   *)
LEMMA RowModelIs ==
    ASSUME OwnIdentity, Identified, OriginInv, NEW e \in Reports,
           NEW i \in DOMAIN miners, RowOfBox(e, i) \/ i = StableID(e), RowModel(i) # None
    PROVE  RowModel(i) = ModelName[e.box]
<1>1. miners[i].box # None /\ RowModel(i) = ModelName[miners[i].box]
  BY DEF RowModel
<1>2. miners[i].box = e.box
  <2>1. CASE RowOfBox(e, i)
    BY <2>1 DEF RowOfBox
  <2>2. CASE i = StableID(e)
    <3>1. PICK c \in Reports : StableID(c) = i /\ miners[i].box = c.box
      BY <1>1, RowOrigin DEF Ghost
    <3> QED BY <2>2, <3>1 DEF OwnIdentity, Shares
  <2> QED BY <2>1, <2>2
<1> QED BY <1>1, <1>2

(* When no part of an identity is shared by two boxes, a series is counted *)
(* with the boxes of one model only (aggregateHashrateByType), in memory   *)
(* and with a database, after any promotions, merges, failed renames and   *)
(* restarts.                                                               *)
THEOREM GroupsKeepToOneModel ==
    OwnIdentity /\ Identified => (StoreSpec => []GroupsAreOfOneModel)
<1> SUFFICES ASSUME OwnIdentity, Identified
             PROVE  StoreSpec => []GroupsAreOfOneModel
  OBVIOUS
<1>1. ASSUME OriginInv, OwnSeries PROVE GroupsAreOfOneModel
  <2> SUFFICES ASSUME NEW type \in Types, NEW p \in Group(type)
               PROVE  ModelName[p.box] = type
    BY DEF GroupsAreOfOneModel
  <2>1. PICK id \in SeriesIds(0, 0) : type \in TypesOf(id) /\ p \in SeriesPoints(id, 0, 0)
    BY DEF Group
  <2>2. type # None
    BY DEF Types
  <2>3. PICK e \in Reports : StableID(e) = id /\ p.box = e.box
    BY <1>1, <2>1 DEF OwnSeries
  <2>4. PICK live \in LiveRows(id) : type = TypeOf(id, live)
    BY <2>1 DEF TypesOf
  <2> DEFINE rows == { i \in live : RowModel(i) # None }
  <2>5. CASE rows = {}
    <3>1. type = RowModel(id)
      BY <2>4, <2>5 DEF TypeOf
    <3>2. id \in DOMAIN miners
      BY <2>2, <3>1 DEF RowModel
    <3> QED BY <1>1, <2>2, <2>3, <3>1, <3>2, RowModelIs
  <2>6. CASE rows # {}
    <3>1. PICK i \in rows : type = RowModel(i)
      BY <2>4, <2>6 DEF TypeOf
    <3>2. i \in DOMAIN miners
      BY <3>1, LiveRowsAre
    <3>3. RowOfBox(e, i) \/ i = StableID(e)
      BY <1>1, <2>3, <3>1, LiveIsOwn
    <3> QED BY <1>1, <2>2, <2>3, <3>1, <3>2, <3>3, RowModelIs
  <2> QED BY <2>5, <2>6
<1> QED BY <1>1, StoreOrigin, OwnSeriesAlways, PTL

-----------------------------------------------------------------------------
(* The lines.                                                              *)

LEMMA EnrichedWithRow ==
    ASSUME NEW id, NEW i
    PROVE  LET s == Enriched(id, {i})
           IN  /\ s.id = id /\ s.canonical = i
               /\ Name(miners[i].host) # NoText => s.hostname = Clean(Name(miners[i].host))
               /\ Name(miners[i].host) = NoText => s.hostname = Clean(SeriesLabel(id))
<1> DEFINE s == Enriched(id, {i})
<1>1. (CHOOSE j \in {i} : TRUE) = i /\ {i} # {}
  OBVIOUS
<1>2. /\ s.id = id /\ s.canonical = i
      /\ s.hostname = Clean(FirstText(<<Name(miners[i].host), SeriesLabel(id)>>))
  BY <1>1 DEF Enriched
<1> HIDE DEF s
<1>3. FirstText(<<Name(miners[i].host), SeriesLabel(id)>>)
        = IF Name(miners[i].host) # NoText THEN Name(miners[i].host) ELSE SeriesLabel(id)
  BY FirstOfTwo
<1> QED BY <1>2, <1>3 DEF s

LEMMA LabelWithRow ==
    ASSUME NEW id, NEW i
    PROVE  Enriched(id, {i}).label
             = FirstText(<<Good(Name(miners[i].host)), Good(Enriched(id, {i}).hostname),
                           Good(Clean(SeriesLabel(id))), Good(Clean(i)),
                           Good(Clean(id)), Name(RowModel(i)), Name(RowModel(id))>>)
<1>1. (CHOOSE j \in {i} : TRUE) = i /\ {i} # {}
  OBVIOUS
<1> QED BY <1>1 DEF Enriched

LEMMA EnrichedWithNone ==
    ASSUME NEW id
    PROVE  LET s == Enriched(id, {})
           IN  /\ s.id = id /\ s.canonical = NoText
               /\ s.hostname = Clean(FirstText(<<NoText, SeriesLabel(id)>>))
BY DEF Enriched

(* The key of a series that has a name, and of one that has none.          *)
LEMMA KeyByName ==
    ASSUME NEW s, NEW n \in HostNames, s.hostname = Name(n)
    PROVE  MergeKey(s) = IF HostFold[n] \in BadLabels THEN FirstText(<<s.canonical, s.id>>)
                         ELSE <<"h", HostFold[n]>>
<1>0. Name(n) # NoText
  BY NamesAndIds
<1>1. FirstText(<<s.hostname, s.label, s.canonical, s.id>>) = Name(n)
  BY <1>0, FirstOfFour
<1>2. LowerName(Name(n)) = Name(HostFold[n]) /\ HostFold[n] \in HostNames
  BY NamesAndIds
<1>3. Name(HostFold[n])[2] = HostFold[n]
  <2>1. Name(HostFold[n]) = <<"name", HostFold[n]>>
    BY <1>2, NamesAndIds
  <2> QED BY <2>1
<1>4. BadLabel(Name(HostFold[n])) <=> HostFold[n] \in BadLabels
  BY NamesAndIds
<1> QED BY <1>1, <1>2, <1>3, <1>4 DEF MergeKey

LEMMA KeyById ==
    ASSUME NEW s, NEW text, text # NoText, LowerName(text) = text, BadLabel(text),
           \/ s.hostname = text
           \/ s.hostname = NoText /\ s.label = NoText /\ s.canonical = text
    PROVE  MergeKey(s) = FirstText(<<s.canonical, s.id>>)
<1>1. FirstText(<<s.hostname, s.label, s.canonical, s.id>>) = text
  BY FirstOfFour
<1> QED BY <1>1 DEF MergeKey

(* The key of a line is the name, or the id, of the device of each series  *)
(* on it.                                                                  *)
KeyOfBox(e, key) ==
    \E c \in Reports :
        /\ c.box = e.box
        /\ \/ key = StableID(c)
           \/ DistinctiveHostname(c.host) # None /\ key = <<"h", DistinctiveHostname(c.host)>>

LEMMA KeyOfNamedRow ==
    ASSUME LabelsIdentify, NEW id, NEW i, NEW c \in Reports,
           miners[i].host = c.host, c.host # None, StableID(c) = i, i # NoText
    PROVE  LET key == MergeKey(Enriched(id, {i}))
           IN  IF HostFold[c.host] \in BadLabels THEN key = i
               ELSE key = <<"h", DistinctiveHostname(c.host)>>
                    /\ DistinctiveHostname(c.host) # None
<1> DEFINE s == Enriched(id, {i})
<1>1. c.host \in HostNames
  BY FleetAssumption, ReportFields DEF Optional
<1>2. Name(c.host) # NoText /\ Clean(Name(c.host)) = Name(c.host)
  BY <1>1, NamesAndIds
<1>3. s.hostname = Name(c.host) /\ s.canonical = i
  <2>1. Name(miners[i].host) = Name(c.host)
    OBVIOUS
  <2> QED BY <1>2, <2>1, EnrichedWithRow
<1> HIDE DEF s
<1>4. MergeKey(s) = IF HostFold[c.host] \in BadLabels THEN FirstText(<<s.canonical, s.id>>)
                    ELSE <<"h", HostFold[c.host]>>
  BY <1>1, <1>3, KeyByName
<1>5. FirstText(<<s.canonical, s.id>>) = i
  BY <1>3, FirstOfTwo
<1>6. HostFold[c.host] \notin BadLabels => DistinctiveHostname(c.host) # None
  BY DEF LabelsIdentify
<1>7. DistinctiveHostname(c.host) # None => DistinctiveHostname(c.host) = HostFold[c.host]
  BY DEF DistinctiveHostname
<1> QED BY <1>4, <1>5, <1>6, <1>7 DEF s

(* A series without a row of that name is merged by the name in its id, or *)
(* by the id.                                                              *)
LEMMA KeyWithoutName ==
    ASSUME Identified, NEW e \in Reports, NEW s,
           s.hostname = Clean(StableID(e)), s.id = StableID(e),
           s.canonical = NoText \/ s.canonical = StableID(e)
    PROVE  \/ MergeKey(s) = StableID(e)
           \/ DistinctiveHostname(e.host) # None /\ MergeKey(s) = <<"h", DistinctiveHostname(e.host)>>
<1> DEFINE id == StableID(e)
<1>1. /\ id # NoText /\ id # NoID
      /\ \/ /\ DistinctiveHostname(e.host) \in HostNames
            /\ HostFold[DistinctiveHostname(e.host)] = DistinctiveHostname(e.host)
            /\ id = <<"host", DistinctiveHostname(e.host)>>
            /\ DistinctiveHostname(e.host) # None
            /\ DistinctiveHostname(e.host) \notin GenericHosts
         \/ /\ id[1] \in {"mac", "sn", "ip"}
            /\ Clean(id) = id /\ LowerName(id) = id /\ BadLabel(id)
  BY IdText
<1>2. FirstText(<<s.canonical, s.id>>) = id
  BY <1>1, FirstOfTwo
<1>3. CASE id = <<"host", DistinctiveHostname(e.host)>> /\ DistinctiveHostname(e.host) \in HostNames
  <2>1. s.hostname = Name(DistinctiveHostname(e.host))
    BY <1>3, NamesAndIds
  <2>2. MergeKey(s) = IF HostFold[DistinctiveHostname(e.host)] \in BadLabels
                      THEN FirstText(<<s.canonical, s.id>>)
                      ELSE <<"h", HostFold[DistinctiveHostname(e.host)]>>
    BY <1>3, <2>1, KeyByName
  <2>3. /\ HostFold[DistinctiveHostname(e.host)] = DistinctiveHostname(e.host)
        /\ DistinctiveHostname(e.host) # None
    BY <1>1, <1>3
  <2> QED BY <1>2, <2>2, <2>3
<1>4. CASE Clean(id) = id /\ LowerName(id) = id /\ BadLabel(id)
  <2>1. MergeKey(s) = FirstText(<<s.canonical, s.id>>)
    BY <1>1, <1>4, KeyById
  <2> QED BY <1>2, <2>1
<1> QED BY <1>1, <1>3, <1>4

(* A series whose own row, i, has no name and no model.                    *)
LEMMA KeyOfPlainRow ==
    ASSUME NEW i \in DOMAIN miners, i # NoText, miners[i].host = None,
           Clean(i) = i, LowerName(i) = i, BadLabel(i), RowModel(i) = None
    PROVE  MergeKey(Enriched(i, {i})) = i
<1> DEFINE s == Enriched(i, {i})
<1>1. Name(miners[i].host) = NoText /\ Name(RowModel(i)) = NoText
  BY NamesAndIds
<1>2. SeriesLabel(i) = NoText
  BY <1>1, FirstOfTwo DEF SeriesLabel
<1>3. Clean(NoText) = NoText
  BY NamesAndIds
<1>4. s.id = i /\ s.canonical = i /\ s.hostname = NoText
  BY <1>1, <1>2, <1>3, EnrichedWithRow
<1>5. Good(NoText) = NoText /\ Good(i) = NoText
  BY DEF Good
<1>6. s.label = FirstText(<<NoText, NoText, NoText, NoText, NoText, NoText, NoText>>)
  <2>1. s.label = FirstText(<<Good(Name(miners[i].host)), Good(s.hostname),
                              Good(Clean(SeriesLabel(i))), Good(Clean(i)),
                              Good(Clean(i)), Name(RowModel(i)), Name(RowModel(i))>>)
    BY LabelWithRow
  <2> HIDE DEF s
  <2>2. /\ Good(Name(miners[i].host)) = NoText /\ Good(s.hostname) = NoText
        /\ Good(Clean(SeriesLabel(i))) = NoText /\ Good(Clean(i)) = NoText
        /\ Name(RowModel(i)) = NoText
    BY <1>1, <1>2, <1>3, <1>4, <1>5
  <2> QED BY <2>1, <2>2
<1>7. FirstText(<<NoText, NoText, NoText, NoText, NoText, NoText, NoText>>) = NoText
  BY DEF FirstText
<1>8. MergeKey(s) = FirstText(<<s.canonical, s.id>>)
  BY <1>4, <1>6, <1>7, KeyById
<1> QED BY <1>4, <1>8, FirstOfTwo

LEMMA KeyIsOwn ==
    ASSUME OwnIdentity, Identified, LabelsIdentify, OriginInv, NEW e \in Reports,
           NEW key \in LineKeys(StableID(e))
    PROVE  KeyOfBox(e, key)
<1> DEFINE id == StableID(e)
<1>1. PICK live \in LiveRows(id) : key = MergeKey(Enriched(id, live))
  BY DEF LineKeys, ChartSeries
<1>2. /\ id # NoText /\ id # NoID
      /\ \/ /\ DistinctiveHostname(e.host) \in HostNames
            /\ HostFold[DistinctiveHostname(e.host)] = DistinctiveHostname(e.host)
            /\ id = <<"host", DistinctiveHostname(e.host)>>
            /\ DistinctiveHostname(e.host) # None
            /\ DistinctiveHostname(e.host) \notin GenericHosts
         \/ /\ id[1] \in {"mac", "sn", "ip"}
            /\ Clean(id) = id /\ LowerName(id) = id /\ BadLabel(id)
  BY IdText
<1>3. ById(id) = {} => id \notin DOMAIN miners /\ SeriesLabel(id) = id
  BY <1>2 DEF ById, SeriesLabel
<1>4. CASE live = {} /\ ById(id) = {}
  <2> DEFINE s == Enriched(id, {})
  <2>1. s.id = id /\ s.canonical = NoText /\ s.hostname = Clean(id)
    BY <1>2, <1>3, <1>4, EnrichedWithNone, FirstOfTwo
  <2> HIDE DEF s
  <2>2. \/ MergeKey(s) = StableID(e)
        \/ DistinctiveHostname(e.host) # None /\ MergeKey(s) = <<"h", DistinctiveHostname(e.host)>>
    BY <2>1, KeyWithoutName
  <2> QED BY <1>1, <1>4, <2>2 DEF KeyOfBox, s
<1>5. ASSUME NEW i \in DOMAIN miners, live = {i}, ById(id) = {} \/ i \in ById(id)
      PROVE  KeyOfBox(e, key)
  <2> DEFINE s == Enriched(id, {i})
  <2>1. key = MergeKey(s)
    BY <1>1, <1>5
  <2>2. RowOfBox(e, i) \/ (Ghost(i) /\ i = id)
    BY <1>5, LiveIsOwn
  <2>3. CASE Ghost(i) /\ i = id
    <3>1. id[1] = "ip" /\ miners[i].host = None /\ RowModel(i) = None
      BY <2>3 DEF Ghost, RowModel
    <3>2. Clean(i) = i /\ LowerName(i) = i /\ BadLabel(i)
      BY <1>2, <2>3, <3>1
    <3>3. MergeKey(Enriched(i, {i})) = i
      BY <1>2, <2>3, <3>1, <3>2, KeyOfPlainRow
    <3> QED BY <2>1, <2>3, <3>3 DEF KeyOfBox
  <2>4. CASE RowOfBox(e, i)
    <3>1. PICK c \in Reports :
             /\ c.box = e.box /\ StableID(c) = i
             /\ miners[i].box = c.box /\ miners[i].host = c.host
      BY <2>4 DEF RowOfBox
    <3>2. i # NoText
      BY <3>1 DEF Identified, NoText
    <3>3. CASE c.host # None
      <4>1. IF HostFold[c.host] \in BadLabels THEN key = i
            ELSE key = <<"h", DistinctiveHostname(c.host)>> /\ DistinctiveHostname(c.host) # None
        BY <2>1, <3>1, <3>2, <3>3, KeyOfNamedRow
      <4> QED BY <3>1, <4>1 DEF KeyOfBox
    <3>4. CASE c.host = None
      <4>1. Name(miners[i].host) = NoText
        BY <3>1, <3>4, NamesAndIds
      <4>2. s.id = id /\ s.canonical = i /\ s.hostname = Clean(SeriesLabel(id))
        BY <4>1, EnrichedWithRow
      <4>3. FirstText(<<s.canonical, s.id>>) = i
        BY <3>2, <4>2, FirstOfTwo
      <4>4. KeyOfBox(e, i)
        BY <3>1 DEF KeyOfBox
      <4>5. CASE ById(id) = {}
        <5>1. s.hostname = Clean(id)
          BY <1>3, <4>2, <4>5
        <5>2. CASE id[1] \in {"mac", "sn", "ip"} /\ Clean(id) = id /\ LowerName(id) = id /\ BadLabel(id)
          <6>1. MergeKey(s) = FirstText(<<s.canonical, s.id>>)
            BY <1>2, <5>1, <5>2, KeyById
          <6> QED BY <2>1, <4>3, <4>4, <6>1
        <5>3. CASE /\ id = <<"host", DistinctiveHostname(e.host)>>
                   /\ DistinctiveHostname(e.host) \in HostNames
                   /\ HostFold[DistinctiveHostname(e.host)] = DistinctiveHostname(e.host)
                   /\ DistinctiveHostname(e.host) # None
          <6>1. s.hostname = Name(DistinctiveHostname(e.host))
            BY <5>1, <5>3, NamesAndIds
          <6>2. MergeKey(s) = IF HostFold[DistinctiveHostname(e.host)] \in BadLabels
                              THEN FirstText(<<s.canonical, s.id>>)
                              ELSE <<"h", HostFold[DistinctiveHostname(e.host)]>>
            BY <5>3, <6>1, KeyByName
          <6>3. MergeKey(s) = i \/ MergeKey(s) = <<"h", DistinctiveHostname(e.host)>>
            BY <4>3, <5>3, <6>2
          <6> QED BY <2>1, <4>4, <5>3, <6>3 DEF KeyOfBox
        <5> QED BY <1>2, <5>2, <5>3
      <4>6. CASE i \in ById(id)
        <5>1. i = id
          <6> SUFFICES ASSUME i # id PROVE FALSE
            OBVIOUS
          <6>1. id[1] = "host" /\ RowName(i) = Clean(id)
            BY <4>6 DEF ById
          <6>2. RowName(i) = NoText
            BY <4>1, NamesAndIds DEF RowName
          <6>3. id = <<"host", DistinctiveHostname(e.host)>> /\ DistinctiveHostname(e.host) \in HostNames
            BY <1>2, <6>1
          <6>4. Clean(id) = Name(DistinctiveHostname(e.host)) /\ Name(DistinctiveHostname(e.host)) # NoText
            BY <6>3, NamesAndIds
          <6> QED BY <6>1, <6>2, <6>4
        <5>2. DistinctiveHostname(c.host) = None
          BY <3>4 DEF DistinctiveHostname
        <5>3. id[1] # "host"
          BY <3>1, <5>1, <5>2 DEF StableID
        <5>4. Clean(id) = id /\ LowerName(id) = id /\ BadLabel(id)
          BY <1>2, <5>3
        <5>5. CASE RowModel(i) = None
          <6>1. MergeKey(Enriched(i, {i})) = i
            BY <3>1, <3>2, <3>4, <5>1, <5>4, <5>5, KeyOfPlainRow
          <6> QED BY <2>1, <4>4, <5>1, <6>1
        <5>6. CASE RowModel(i) # None
          <6>1. c.box # None /\ RowModel(i) = ModelName[c.box] /\ c.box \in Boxes
            <7>1. c \in Report
              BY FleetAssumption
            <7> QED BY <3>1, <5>6, <7>1, ReportFields DEF RowModel, Optional
          <6>2. RowModel(i) \in HostNames /\ HostFold[RowModel(i)] \in BadLabels
            BY <3>4, <5>6, <6>1, ChartsAssumption DEF LabelsIdentify, Optional
          <6>3. SeriesLabel(id) = Name(RowModel(i))
            BY <3>2, <4>1, <5>1, FirstOfTwo DEF SeriesLabel
          <6>4. s.hostname = Name(RowModel(i))
            BY <4>2, <6>2, <6>3, NamesAndIds
          <6>5. MergeKey(s) = FirstText(<<s.canonical, s.id>>)
            BY <6>2, <6>4, KeyByName
          <6> QED BY <2>1, <4>3, <4>4, <6>5
        <5> QED BY <5>5, <5>6
      <4> QED BY <1>5, <4>5, <4>6
    <3> QED BY <3>3, <3>4
  <2> QED BY <2>2, <2>3, <2>4
<1> QED BY <1>4, <1>5, LiveRowsAre

(* Two boxes are never on one line, when no part of an identity is shared  *)
(* and no name is merged by that does not tell units apart (LabelsIdentify)*)
(* (loadHistory): also while a box has samples under several ids, or has   *)
(* left the fleet.                                                         *)
THEOREM LinesKeepToOneBox ==
    OwnIdentity /\ Identified /\ LabelsIdentify => (StoreSpec => []LinesOfOneBox)
<1> SUFFICES ASSUME OwnIdentity, Identified, LabelsIdentify
             PROVE  StoreSpec => []LinesOfOneBox
  OBVIOUS
<1>1. ASSUME OriginInv, OwnSeries PROVE LinesOfOneBox
  <2> SUFFICES ASSUME NEW key, NEW p \in LinePoints(key, 0, 0), NEW q \in LinePoints(key, 0, 0)
               PROVE  p.box = q.box
    BY DEF LinesOfOneBox
  <2>1. ASSUME NEW x \in LinePoints(key, 0, 0)
        PROVE  \E e \in Reports : x.box = e.box /\ KeyOfBox(e, key)
    <3>1. PICK id \in SeriesIds(0, 0) : key \in LineKeys(id) /\ x \in SeriesPoints(id, 0, 0)
      BY DEF LinePoints, LineIds
    <3>2. PICK e \in Reports : StableID(e) = id /\ x.box = e.box
      BY <1>1, <3>1 DEF OwnSeries
    <3>3. KeyOfBox(e, key)
      BY <1>1, <3>1, <3>2, KeyIsOwn
    <3> QED BY <3>2, <3>3
  <2>2. PICK c \in Reports :
          /\ c.box = p.box
          /\ \/ key = StableID(c)
             \/ DistinctiveHostname(c.host) # None /\ key = <<"h", DistinctiveHostname(c.host)>>
    BY <2>1 DEF KeyOfBox
  <2>3. PICK d \in Reports :
          /\ d.box = q.box
          /\ \/ key = StableID(d)
             \/ DistinctiveHostname(d.host) # None /\ key = <<"h", DistinctiveHostname(d.host)>>
    BY <2>1 DEF KeyOfBox
  <2>4. \A f \in Reports : \A x : StableID(f) # <<"h", x>>
    BY DEF StableID
  <2>5. Shares(c, d)
    <3>1. CASE key = StableID(c) /\ key = StableID(d)
      BY <3>1 DEF Shares
    <3>2. CASE /\ DistinctiveHostname(c.host) # None /\ key = <<"h", DistinctiveHostname(c.host)>>
               /\ key = <<"h", DistinctiveHostname(d.host)>>
      BY <3>2 DEF Shares
    <3> QED BY <2>2, <2>3, <2>4, <3>1, <3>2
  <2> QED BY <2>2, <2>3, <2>5 DEF OwnIdentity
<1> QED BY <1>1, StoreOrigin, OwnSeriesAlways, PTL

-----------------------------------------------------------------------------
(* Boxes with a name.                                                      *)

(* A row has its MAC in the form it is compared in (ApplyStableID).        *)
RowsNormalized ==
    \A id \in DOMAIN miners :
        NormalizeMAC(miners[id].mac) # None => miners[id].mac = NormalizeMAC(miners[id].mac)

LEMMA RowsNormalizedStep ==
    OriginInv /\ RowsNormalized /\ [FleetNext]_fleetVars => RowsNormalized'
<1> SUFFICES ASSUME OriginInv, RowsNormalized, [FleetNext]_fleetVars
             PROVE  RowsNormalized'
  OBVIOUS
<1>1. ASSUME NEW d \in Reports, NEW found \in Found(d),
             NEW held \in SUBSET Aliases(d), UpsertLive(d, found, held)
      PROVE  RowsNormalized'
  <2> DEFINE r == RowOf(ApplyStableID(d), FALSE, now)
  <2>1. miners' = Replace(Folded(d, found, held), StableID(d), r)
    BY <1>1 DEF UpsertLive
  <2>2. NormalizeMAC(r.mac) # None => r.mac = NormalizeMAC(r.mac)
    <3>1. d \in Report /\ d.mac \in Optional(MACs)
      BY FleetAssumption, ReportFields
    <3>2. r.mac = IF NormalizeMAC(d.mac) # None THEN NormalizeMAC(d.mac) ELSE d.mac
      BY <3>1 DEF RowOf, ApplyStableID, Report
    <3> HIDE DEF r
    <3>3. NormalizeMAC(d.mac) # None => NormalizeMAC(NormalizeMAC(d.mac)) = NormalizeMAC(d.mac)
      BY <3>1, IdentityAssumption DEF NormalizeMAC, Optional
    <3> QED BY <3>2, <3>3
  <2> HIDE DEF r
  <2>3. \A id \in DOMAIN miners' : miners'[id] = r \/ (id \in DOMAIN miners /\ miners'[id] = miners[id])
    BY <2>1 DEF Replace
  <2> QED BY <2>2, <2>3 DEF RowsNormalized
<1>2. ASSUME NEW ip \in IPs, NEW found \in Found(Failed(ip)),
             UpsertFailed(Failed(ip), found)
      PROVE  RowsNormalized'
  <2>1. CASE found = {}
    <3> DEFINE r == RowOf(ApplyStableID(Failed(ip)), TRUE, now)
    <3>1. miners' = Replace({}, StableID(Failed(ip)), r)
      BY <1>2, <2>1 DEF UpsertFailed
    <3>2. NormalizeMAC(r.mac) = None
      BY DEF RowOf, ApplyStableID, Failed, NormalizeMAC
    <3> HIDE DEF r
    <3>3. \A id \in DOMAIN miners' : miners'[id] = r \/ (id \in DOMAIN miners /\ miners'[id] = miners[id])
      BY <3>1 DEF Replace
    <3> QED BY <3>2, <3>3 DEF RowsNormalized
  <2>2. CASE found # {}
    <3>1. \A id \in DOMAIN miners' :
             /\ id \in DOMAIN miners
             /\ miners'[id] = IF id \in found THEN MergeError(Failed(ip), id) ELSE miners[id]
      BY <1>2, <2>2 DEF UpsertFailed
    <3>2. \A id \in DOMAIN miners' : id \in DOMAIN miners /\ miners'[id].mac = miners[id].mac
      BY <3>1, MergeErrorFields DEF OriginInv
    <3> QED BY <3>2 DEF RowsNormalized
  <2> QED BY <2>1, <2>2
<1>3. CASE Prune \/ Restart \/ Advance \/ UNCHANGED fleetVars
  <2>1. \A id \in DOMAIN miners' : id \in DOMAIN miners /\ miners'[id] = miners[id]
    BY <1>3 DEF Prune, Restart, NoMiners, Advance, fleetVars
  <2> QED BY <2>1 DEF RowsNormalized
<1> QED BY <1>1, <1>2, <1>3 DEF FleetNext

(* What is known of the rows of named boxes.                               *)
NamedInv == OriginInv /\ OneRowPerMAC /\ RowsNormalized

LEMMA NamedInvAlways == StoreSpec => []NamedInv
<1>1. FleetInit => RowsNormalized
  BY DEF FleetInit, NoMiners, RowsNormalized
<1>2. FleetSpec => []RowsNormalized
  BY <1>1, RowsNormalizedStep, OriginInvAlways, PTL DEF FleetSpec
<1> QED BY <1>2, StoreImplementsFleet, OneRowPerDevice, OriginInvAlways, PTL
        DEF ImplementsFleet, NamedInv

(* The series of a named box has its row, and no other.                    *)
LEMMA NamedRowIsLive ==
    ASSUME OwnIdentity, Identified, LabelsIdentify, NamedAreSteady, NamedInv,
           NEW row \in DOMAIN miners, ~BadLabel(RowName(row)),
           NEW e \in Reports, e.box = miners[row].box
    PROVE  /\ LiveRows(StableID(e)) = {{row}}
           /\ StableID(e) = row \/ StableID(e) \notin DOMAIN miners
           /\ \E c \in Reports :
                 /\ miners[row].host = c.host /\ c.host # None /\ StableID(c) = row
                 /\ HostFold[c.host] \notin BadLabels
                 /\ RowName(row) = Name(HostFold[c.host])
<1> DEFINE id == StableID(e)
<1>1. OriginInv
  BY DEF NamedInv
<1>2. miners[row].host # None
  <2> SUFFICES ASSUME miners[row].host = None PROVE FALSE
    OBVIOUS
  <2>1. RowName(row) = NoText
    BY NamesAndIds DEF RowName
  <2> QED BY <2>1 DEF BadLabel
<1>3. PICK c \in Reports :
        /\ StableID(c) = row
        /\ miners[row].ip = c.ip /\ miners[row].host = c.host
        /\ NormalizeMAC(miners[row].mac) = NormalizeMAC(c.mac)
        /\ miners[row].box = c.box
  BY <1>1, <1>2, RowOrigin DEF Ghost
<1> DEFINE n == DistinctiveHostname(c.host)
           m == NormalizeMAC(c.mac)
<1>4. c.host \in HostNames /\ HostFold[c.host] \in HostNames
  BY <1>2, <1>3, FleetAssumption, ReportFields, IdentityAssumption DEF Optional
<1>5. RowName(row) = Name(HostFold[c.host])
  BY <1>3, <1>4, NamesAndIds DEF RowName
<1>6. HostFold[c.host] \notin BadLabels
  BY <1>4, <1>5, NamesAndIds
<1>7. n # None /\ n = HostFold[c.host] /\ n \in HostNames /\ n \notin GenericHosts
  BY <1>2, <1>3, <1>4, <1>6 DEF LabelsIdentify, DistinctiveHostname
<1>8. row = <<"host", n>>
  BY <1>3, <1>7 DEF StableID
<1>9. m # None /\ NormalizeMAC(e.mac) = m /\ DistinctiveHostname(e.host) \in {None, n}
  BY <1>3, <1>7 DEF NamedAreSteady
<1>10. SteadyMAC(m)
  <2> SUFFICES ASSUME NEW d \in Reports, NEW f \in Reports, NormalizeMAC(d.mac) = m,
                      DistinctiveHostname(d.host) # None,
                      DistinctiveHostname(d.host) = DistinctiveHostname(f.host)
               PROVE  NormalizeMAC(f.mac) = m
    BY DEF SteadyMAC
  <2>1. d.box = f.box
    BY DEF OwnIdentity, Shares
  <2> QED BY <2>1 DEF NamedAreSteady
<1>11. \A j \in DOMAIN miners : NormalizeMAC(miners[j].mac) = m => j = row
  BY <1>3, <1>9, <1>10 DEF NamedInv, OneRowPerMAC
<1>12. CASE id = row
  <2>1. Clean(id) = Name(n)
    BY <1>7, <1>8, <1>12, NamesAndIds
  <2>2. \A j \in DOMAIN miners : RowName(j) = Name(n) => j = row
    BY <1>1, <1>7, <1>8, SameRowName
  <2>3. id # NoID
    BY DEF Identified
  <2>4. ById(id) = {row}
    BY <1>12, <2>1, <2>2, <2>3 DEF ById
  <2>5. LiveRows(id) = { {i} : i \in ById(id) }
    BY <2>4, LiveRowsIs
  <2>6. LiveRows(id) = {{row}}
    BY <2>4, <2>5
  <2> QED BY <1>2, <1>3, <1>5, <1>6, <1>12, <2>6
<1>13. CASE id # row
  <2>1. id = <<"mac", m>>
    BY <1>3, <1>8, <1>9, <1>13 DEF StableID
  <2>2. id \notin DOMAIN miners
    <3> SUFFICES ASSUME id \in DOMAIN miners PROVE FALSE
      OBVIOUS
    <3>1. StableID(miners[id]) = id
      BY <1>1 DEF OriginInv, FleetInv, KeyedByIdentity
    <3>2. NormalizeMAC(miners[id].mac) = m
      BY <2>1, <3>1, KeyTags
    <3> QED BY <1>11, <1>13, <3>2
  <2>3. ById(id) = {}
    BY <2>1, <2>2 DEF ById
  <2>4. NormalizeMAC(m) = m
    BY <1>9, FleetAssumption, ReportFields, IdentityAssumption DEF NormalizeMAC, Optional
  <2>5. miners[row].mac = m
    BY <1>3, <1>9 DEF NamedInv, RowsNormalized
  <2>6. ByMAC(id) = {row}
    BY <1>11, <2>1, <2>4, <2>5 DEF ByMAC
  <2>7. LiveRows(id) = { {i} : i \in ByMAC(id) }
    BY <2>3, <2>6, LiveRowsIs
  <2>8. LiveRows(id) = {{row}}
    BY <2>6, <2>7
  <2> QED BY <1>2, <1>3, <1>5, <1>6, <2>2, <2>8
<1> QED BY <1>12, <1>13

(* All samples of a box that is in the fleet under a name of its own are   *)
(* on the line of that name (loadHistory), also those stored under its MAC *)
(* before it was named, by a rename that failed, or before a restart.      *)
THEOREM NamedMinersHaveOneLine ==
    OwnIdentity /\ Identified /\ LabelsIdentify /\ NamedAreSteady
    => (StoreSpec => []OneLinePerNamedMiner)
<1> SUFFICES ASSUME OwnIdentity, Identified, LabelsIdentify, NamedAreSteady
             PROVE  StoreSpec => []OneLinePerNamedMiner
  OBVIOUS
<1>1. ASSUME NamedInv, OwnSeries PROVE OneLinePerNamedMiner
  <2> SUFFICES ASSUME NEW row \in DOMAIN miners, ~BadLabel(RowName(row)),
                      NEW id \in SeriesIds(0, 0), NEW p \in SeriesPoints(id, 0, 0),
                      p.box = miners[row].box
               PROVE  LineKeys(id) = {<<"h", RowName(row)[2]>>}
    BY DEF OneLinePerNamedMiner
  <2>1. PICK e \in Reports : StableID(e) = id /\ e.box = p.box
    BY <1>1 DEF OwnSeries
  <2>2. LiveRows(id) = {{row}}
    BY <1>1, <2>1, NamedRowIsLive
  <2>3. PICK c \in Reports :
           /\ miners[row].host = c.host /\ c.host # None /\ StableID(c) = row
           /\ HostFold[c.host] \notin BadLabels
           /\ RowName(row) = Name(HostFold[c.host])
    BY <1>1, <2>1, NamedRowIsLive
  <2>4. row # NoText
    BY <2>3 DEF Identified, NoText
  <2>5. /\ MergeKey(Enriched(id, {row})) = <<"h", DistinctiveHostname(c.host)>>
        /\ DistinctiveHostname(c.host) = HostFold[c.host]
    BY <2>3, <2>4, KeyOfNamedRow DEF DistinctiveHostname
  <2>6. RowName(row)[2] = HostFold[c.host]
    <3>1. HostFold[c.host] \in HostNames
      BY <2>3, FleetAssumption, ReportFields, IdentityAssumption DEF Optional
    <3>2. RowName(row) = <<"name", HostFold[c.host]>>
      BY <2>3, <3>1, NamesAndIds
    <3> QED BY <3>2
  <2>7. ChartSeries(id) = {Enriched(id, {row})}
    BY <2>2 DEF ChartSeries
  <2>8. LineKeys(id) = {MergeKey(Enriched(id, {row}))}
    BY <2>7 DEF LineKeys
  <2> QED BY <2>5, <2>6, <2>8
<1> QED BY <1>1, NamedInvAlways, OwnSeriesAlways, PTL

(* And all of them are counted with its model, and with no other           *)
(* (aggregateHashrateByType).                                              *)
THEOREM NamedMinersAreCounted ==
    OwnIdentity /\ Identified /\ LabelsIdentify /\ NamedAreSteady
    => (StoreSpec => []NamedBoxesCount)
<1> SUFFICES ASSUME OwnIdentity, Identified, LabelsIdentify, NamedAreSteady
             PROVE  StoreSpec => []NamedBoxesCount
  OBVIOUS
<1>1. ASSUME NamedInv, OwnSeries PROVE NamedBoxesCount
  <2> SUFFICES ASSUME NEW row \in DOMAIN miners, ~BadLabel(RowName(row)),
                      NEW id \in SeriesIds(0, 0), NEW p \in SeriesPoints(id, 0, 0),
                      p.box = miners[row].box
               PROVE  TypesOf(id) = {RowModel(row)}
    BY DEF NamedBoxesCount
  <2>1. PICK e \in Reports : StableID(e) = id /\ e.box = p.box
    BY <1>1 DEF OwnSeries
  <2>2. LiveRows(id) = {{row}} /\ (id = row \/ id \notin DOMAIN miners)
    BY <1>1, <2>1, NamedRowIsLive
  <2>3. TypesOf(id) = {TypeOf(id, {row})}
    BY <2>2 DEF TypesOf
  <2>4. CASE RowModel(row) # None
    <3>1. { i \in {row} : RowModel(i) # None } = {row}
      BY <2>4
    <3>2. (CHOOSE i \in {row} : TRUE) = row
      OBVIOUS
    <3> QED BY <2>3, <3>1, <3>2 DEF TypeOf
  <2>5. CASE RowModel(row) = None
    <3>1. { i \in {row} : RowModel(i) # None } = {}
      BY <2>5
    <3>2. RowModel(id) = None
      BY <2>2, <2>5 DEF RowModel
    <3> QED BY <2>3, <2>5, <3>1, <3>2 DEF TypeOf
  <2> QED BY <2>4, <2>5
<1> QED BY <1>1, NamedInvAlways, OwnSeriesAlways, PTL

-----------------------------------------------------------------------------
(* Samples in the order of time.                                           *)

Dot == [t : Nat, v : Nat]

TimesDiffer(points) == \A p, q \in points : p.t = q.t => p = q

InTimeOrder(s) == \A i, j \in DOMAIN s : i < j => s[i].t <= s[j].t

LEMMA TimeOrderExists ==
    ASSUME NEW points \in SUBSET Dot, IsFiniteSet(points), TimesDiffer(points)
    PROVE  \E s \in SetToSeqs(points) : InTimeOrder(s)
<1> DEFINE T == { p.t : p \in points }
           n == Cardinality(points)
           at == [p \in points |-> p.t]
<1>1. n \in Nat
  BY FS_CardinalityType
<1>2. at \in Surjection(points, T) /\ at \in Injection(points, T)
  BY DEF Surjection, Injection, IsInjective, TimesDiffer
<1>3. IsFiniteSet(T) /\ Cardinality(T) = n
  <2> HIDE DEF at, T
  <2> QED BY <1>2, FS_Surjection
<1>4. T \subseteq Int
  BY DEF Dot
<1>5. PICK f : Listed(f, n, T)
  <2> HIDE DEF T, n
  <2> QED BY <1>3, <1>4, InOrderExists
<1> DEFINE s == [i \in 1..n |-> CHOOSE p \in points : p.t = f[i]]
<1> HIDE DEF n
<1>6. \A i \in 1..n : s[i] \in points /\ s[i].t = f[i]
  BY <1>5 DEF Listed
<1>7. s \in [1..n -> points]
  BY <1>6
<1>8. \A i, j \in 1..n : i < j => s[i].t < s[j].t
  BY <1>5, <1>6 DEF Listed
<1>9. ASSUME NEW i \in 1..n, NEW j \in 1..n, i # j PROVE s[i] # s[j]
  <2>1. s[i].t \in Nat /\ s[j].t \in Nat
    BY <1>6 DEF Dot
  <2>2. i < j \/ j < i
    BY <1>9
  <2>3. s[i].t < s[j].t \/ s[j].t < s[i].t
    BY <1>8, <2>2
  <2> HIDE DEF s
  <2> QED BY <2>1, <2>3
<1>10. DOMAIN s = 1..n
  OBVIOUS
<1> HIDE DEF s
<1>11. s \in SetToSeqs(points)
  BY <1>7, <1>9 DEF SetToSeqs, n
<1>12. InTimeOrder(s)
  <2>1. \A i \in 1..n : s[i].t \in Nat
    BY <1>6 DEF Dot
  <2> QED BY <1>8, <1>10, <2>1 DEF InTimeOrder
<1> QED BY <1>11, <1>12

LEMMA ByTimeIs ==
    ASSUME NEW points \in SUBSET Dot, IsFiniteSet(points), TimesDiffer(points)
    PROVE  LET s == ByTime(points)
           IN  /\ s \in Seq(points) /\ ToSet(s) = points
               /\ \A i, j \in 1..Len(s) : i < j => s[i].t < s[j].t
<1> DEFINE s == ByTime(points)
           n == Cardinality(points)
<1>1. n \in Nat /\ IsFiniteSet(1..n) /\ Cardinality(1..n) = n
  BY FS_CardinalityType, FS_Interval
<1>2. s \in SetToSeqs(points) /\ InTimeOrder(s)
  <2>1. s = CHOOSE x \in SetToSeqs(points) : InTimeOrder(x)
    BY DEF ByTime, InTimeOrder
  <2> HIDE DEF s
  <2> QED BY <2>1, TimeOrderExists
<1> HIDE DEF s
<1>3. s \in [1..n -> points] /\ \A i, j \in 1..n : i # j => s[i] # s[j]
  BY <1>2 DEF SetToSeqs
<1> HIDE DEF n
<1>4. s \in Seq(points) /\ Len(s) = n /\ DOMAIN s = 1..n
  BY <1>1, <1>3
<1>5. s \in Injection(1..n, points)
  BY <1>3 DEF Injection, IsInjective
<1>6. s \in Surjection(1..n, points)
  BY <1>1, <1>5, FS_Injection DEF n
<1>7. ToSet(s) = points
  BY <1>4, <1>6 DEF Surjection, ToSet
<1>8. ASSUME NEW i \in 1..n, NEW j \in 1..n, i < j PROVE s[i].t < s[j].t
  <2>1. s[i] \in points /\ s[j] \in points /\ s[i] # s[j]
    BY <1>3, <1>8
  <2>2. s[i].t # s[j].t
    BY <2>1 DEF TimesDiffer
  <2>3. s[i].t <= s[j].t
    BY <1>2, <1>4, <1>8 DEF InTimeOrder
  <2>4. s[i].t \in Nat /\ s[j].t \in Nat
    BY <2>1 DEF Dot
  <2> QED BY <2>2, <2>3, <2>4
<1> QED BY <1>4, <1>7, <1>8 DEF s

-----------------------------------------------------------------------------
(* Segments.                                                               *)

Stroke == Seq(Dot) \ {<< >>}

AtZero(p, hold) == p.v = 0 \/ hold

LEMMA LastIs ==
    ASSUME NEW S, NEW s \in Seq(S), s # << >>
    PROVE  /\ Len(s) \in Nat /\ Len(s) >= 1 /\ Last(s) = s[Len(s)] /\ Last(s) \in S
           /\ Front(s) \in Seq(S) /\ Len(Front(s)) = Len(s) - 1
           /\ \A i \in 1..(Len(s) - 1) : Front(s)[i] = s[i]
<1>1. Len(s) \in Nat /\ Len(s) >= 1
  OBVIOUS
<1>2. Front(s) = [i \in 1..(Len(s) - 1) |-> s[i]]
  BY <1>1 DEF Front
<1>3. \A i \in 1..(Len(s) - 1) : s[i] \in S
  BY <1>1
<1>4. Len(s) - 1 \in Nat
  BY <1>1
<1> QED BY <1>1, <1>2, <1>3, <1>4 DEF Last

(* The end of a stroke at a hole.                                          *)
LEMMA DropIs ==
    ASSUME NEW seg \in Stroke, NEW hold \in BOOLEAN
    PROVE  LET d == Drop(seg, hold)
           IN  /\ d \in Stroke /\ Len(seg) \in Nat /\ Len(seg) >= 1
               /\ AtZero(Last(d), hold) /\ Last(d).t = Last(seg).t
               /\ hold => d = seg
               /\ \A i \in 1..Len(seg) : d[i] = seg[i]
               /\ \/ Len(d) = Len(seg)
                  \/ Len(d) = Len(seg) + 1 /\ d[Len(d)] = Zero(Last(seg))
<1> DEFINE d == Drop(seg, hold)
           z == Zero(Last(seg))
<1>1. Len(seg) \in Nat /\ Len(seg) >= 1 /\ Last(seg) = seg[Len(seg)] /\ Last(seg) \in Dot
  BY LastIs DEF Stroke
<1>2. z \in Dot /\ z.t = Last(seg).t /\ z.v = 0
  BY <1>1 DEF Zero, Dot
<1>3. CASE hold \/ Last(seg).v = 0
  <2>1. d = seg
    BY <1>3 DEF Drop
  <2> HIDE DEF d
  <2> QED BY <1>1, <1>3, <2>1 DEF AtZero, d
<1>4. CASE ~(hold \/ Last(seg).v = 0)
  <2>1. d = Append(seg, z)
    BY <1>4 DEF Drop
  <2> HIDE DEF d, z
  <2>2. /\ d \in Seq(Dot) /\ Len(d) = Len(seg) + 1 /\ d[Len(d)] = z
        /\ \A i \in 1..Len(seg) : d[i] = seg[i]
    BY <1>1, <1>2, <2>1 DEF Stroke
  <2>3. d # << >> /\ Last(d) = z
    BY <1>1, <2>2 DEF Last
  <2> QED BY <1>1, <1>2, <1>4, <2>2, <2>3 DEF AtZero, Stroke, d, z
<1> QED BY <1>3, <1>4

(* The start of one after a hole.                                          *)
LEMMA RiseIs ==
    ASSUME NEW p \in Dot, NEW hold \in BOOLEAN
    PROVE  LET r == Rise(p, hold)
           IN  /\ r \in Stroke /\ AtZero(r[1], hold) /\ r[Len(r)] = p
               /\ hold => r = <<p>>
               /\ r = <<p>> \/ r = <<Zero(p), p>>
<1>1. Zero(p) \in Dot /\ Zero(p).v = 0
  BY DEF Zero, Dot
<1> QED BY <1>1 DEF Rise, AtZero, Stroke

LEMMA JoinedPair ==
    ASSUME NEW S, NEW s \in Seq(S), NEW a \in S, NEW b \in S
    PROVE  /\ s \o <<a, b>> \in Seq(S) /\ Len(s \o <<a, b>>) = Len(s) + 2
           /\ (s \o <<a, b>>)[Len(s) + 1] = a /\ (s \o <<a, b>>)[Len(s) + 2] = b
           /\ \A i \in 1..Len(s) : (s \o <<a, b>>)[i] = s[i]
<1> DEFINE t == Append(s, a)
           u == Append(t, b)
<1>1. s \o <<a, b>> = u
  OBVIOUS
<1>2. t \in Seq(S) /\ Len(s) \in Nat /\ Len(t) = Len(s) + 1
  OBVIOUS
<1>3. t[Len(s) + 1] = a /\ \A i \in 1..Len(s) : t[i] = s[i]
  OBVIOUS
<1> HIDE DEF t
<1>4. u \in Seq(S) /\ Len(u) = Len(t) + 1 /\ u[Len(t) + 1] = b /\ \A i \in 1..Len(t) : u[i] = t[i]
  BY <1>2
<1> HIDE DEF u
<1>5. Len(u) = Len(s) + 2 /\ u[Len(s) + 1] = a /\ u[Len(s) + 2] = b
  <2>1. Len(s) + 1 \in 1..Len(t) /\ (Len(s) + 1) + 1 = Len(s) + 2
    BY <1>2
  <2>2. u[Len(s) + 1] = t[Len(s) + 1]
    BY <1>4, <2>1
  <2> QED BY <1>2, <1>3, <1>4, <2>1, <2>2
<1>6. \A i \in 1..Len(s) : u[i] = s[i]
  BY <1>2, <1>3, <1>4
<1> QED BY <1>1, <1>4, <1>5, <1>6

LEMMA AddPointIs ==
    ASSUME NEW segs \in Seq(Stroke), segs # << >>, NEW p \in Dot, NEW hold \in BOOLEAN
    PROVE  LET r == AddPoint(segs, p, hold)
               n == Len(segs)
               gap == p.t - Last(segs[n]).t > Gap
           IN  /\ r \in Seq(Stroke) /\ n \in Nat /\ n >= 1
               /\ \A i \in 1..(n - 1) : r[i] = segs[i]
               /\ ~gap => Len(r) = n /\ r[n] = Append(segs[n], p)
               /\ gap => Len(r) = n + 1 /\ r[n] = Drop(segs[n], hold) /\ r[n + 1] = Rise(p, hold)
<1> DEFINE r == AddPoint(segs, p, hold)
           n == Len(segs)
           gap == p.t - Last(segs[n]).t > Gap
           front == Front(segs)
<1>1. /\ n \in Nat /\ n >= 1 /\ Last(segs) = segs[n] /\ segs[n] \in Stroke
      /\ front \in Seq(Stroke) /\ Len(front) = n - 1
      /\ \A i \in 1..(n - 1) : front[i] = segs[i]
  BY LastIs
<1>2. CASE ~gap
  <2>1. r = Append(front, Append(segs[n], p))
    BY <1>1, <1>2 DEF AddPoint
  <2>2. Append(segs[n], p) \in Stroke
    <3>1. segs[n] \in Seq(Dot)
      BY <1>1 DEF Stroke
    <3>2. Append(segs[n], p) \in Seq(Dot) /\ Len(Append(segs[n], p)) = Len(segs[n]) + 1 /\ Len(segs[n]) \in Nat
      BY <3>1
    <3>3. Append(segs[n], p) # << >>
      BY <3>2
    <3> QED BY <3>2, <3>3 DEF Stroke
  <2> DEFINE last == Append(segs[n], p)
  <2> HIDE DEF r, front, n, last
  <2>3. r = Append(front, last) /\ last \in Stroke
    BY <2>1, <2>2 DEF last
  <2>4. /\ r \in Seq(Stroke) /\ Len(r) = (n - 1) + 1 /\ r[(n - 1) + 1] = last
        /\ \A i \in 1..(n - 1) : r[i] = front[i]
    BY <1>1, <2>3
  <2>5. Len(r) = n /\ r[n] = last
    BY <1>1, <2>4
  <2> QED BY <1>1, <1>2, <2>4, <2>5 DEF r, n, last
<1>3. CASE gap
  <2> DEFINE d == Drop(segs[n], hold)
             e == Rise(p, hold)
  <2>1. r = front \o <<d, e>>
    BY <1>1, <1>3 DEF AddPoint
  <2>2. d \in Stroke /\ e \in Stroke
    BY <1>1, DropIs, RiseIs
  <2> HIDE DEF r, front, n, d, e
  <2> DEFINE j == front \o <<d, e>>
  <2>3. /\ j \in Seq(Stroke) /\ Len(j) = Len(front) + 2
        /\ j[Len(front) + 1] = d /\ j[Len(front) + 2] = e
        /\ \A i \in 1..Len(front) : j[i] = front[i]
    <3>1. front \in Seq(Stroke)
      BY <1>1
    <3> QED BY ONLY <2>2, <3>1, JoinedPair DEF j
  <2> HIDE DEF j
  <2>4. /\ r \in Seq(Stroke) /\ Len(r) = (n - 1) + 2
        /\ r[(n - 1) + 1] = d /\ r[(n - 1) + 2] = e
        /\ \A i \in 1..(n - 1) : r[i] = front[i]
    BY <1>1, <2>1, <2>3 DEF j
  <2>5. Len(r) = n + 1 /\ r[n] = d /\ r[n + 1] = e
    <3>1. (n - 1) + 2 = n + 1 /\ (n - 1) + 1 = n
      BY <1>1
    <3> QED BY <2>4, <3>1
  <2> QED BY <1>1, <1>3, <2>4, <2>5 DEF r, n, d, e
<1> QED BY <1>2, <1>3

(* The strokes drawn so far, when all i first samples were added.          *)
Shown(segs) == UNION { ToSet(segs[x]) : x \in DOMAIN segs }

Unbroken(seg) == \A j \in 1..(Len(seg) - 1) : seg[j + 1].t - seg[j].t \in 0..Gap

TimesTo(s, i) == { s[k].t : k \in 1..i }

Strokes(segs, s, i, hold) ==
    /\ segs \in Seq(Stroke) /\ segs # << >>
    /\ Last(segs[Len(segs)]) = s[i]
    /\ \A k \in 1..i : s[k] \in Shown(segs)
    /\ hold => \A p \in Shown(segs) : \E k \in 1..i : p = s[k]
    /\ IsFiniteSet(Holes(TimesTo(s, i)))
    /\ Len(segs) = 1 + Cardinality(Holes(TimesTo(s, i)))
    /\ \A x \in 1..Len(segs) :
          /\ Unbroken(segs[x])
          /\ x > 1 => AtZero(segs[x][1], hold)
          /\ x < Len(segs) => AtZero(Last(segs[x]), hold)

LEMMA HolesGrow ==
    ASSUME NEW U \in SUBSET Nat, NEW m \in U, \A u \in U : u <= m,
           IsFiniteSet(Holes(U)), NEW t \in Nat, m < t
    PROVE  /\ IsFiniteSet(Holes(U \cup {t}))
           /\ Cardinality(Holes(U \cup {t}))
                = IF t - m > Gap THEN Cardinality(Holes(U)) + 1 ELSE Cardinality(Holes(U))
<1>1. m \notin Holes(U)
  BY DEF Holes
<1>2. Gap \in Nat
  BY ChartsAssumption
<1>3. Holes(U \cup {t}) = IF t - m > Gap THEN Holes(U) \cup {m} ELSE Holes(U)
  <2>1. ASSUME NEW x \in U, x # m
        PROVE  x \in Holes(U \cup {t}) <=> x \in Holes(U)
    <3>1. x < m /\ x \in Nat /\ m \in Nat
      BY <2>1
    <3>2. t <= x + Gap => m <= x + Gap
      BY <1>2, <3>1
    <3>3. (\E u \in U : u > x) /\ (\E u \in U \cup {t} : u > x)
      BY <3>1
    <3>4. (\E u \in U \cup {t} : u > x /\ u <= x + Gap) <=> \E u \in U : u > x /\ u <= x + Gap
      BY <3>1, <3>2
    <3> QED BY <3>3, <3>4 DEF Holes
  <2>2. t \notin Holes(U \cup {t}) /\ t \notin U
    BY DEF Holes
  <2>3. m \in Holes(U \cup {t}) <=> t - m > Gap
    <3>1. \A u \in U \cup {t} : u > m => u = t
      OBVIOUS
    <3>2. (\E u \in U \cup {t} : u > m) /\ (t <= m + Gap <=> ~(t - m > Gap))
      BY <1>2
    <3> QED BY <3>1, <3>2 DEF Holes
  <2>4. Holes(U) \subseteq U /\ Holes(U \cup {t}) \subseteq U \cup {t}
    BY DEF Holes
  <2> DEFINE old == Holes(U)
             new == Holes(U \cup {t})
  <2> HIDE DEF old, new
  <2>5. \A x : x \in new => x = m \/ x \in old
    BY <2>1, <2>2, <2>4 DEF old, new
  <2>6. \A x \in old : x # m /\ x \in new
    BY <1>1, <2>1, <2>4 DEF old, new
  <2>7. m \in new <=> t - m > Gap
    BY <2>3 DEF new
  <2>8. new = IF t - m > Gap THEN old \cup {m} ELSE old
    BY <2>5, <2>6, <2>7
  <2> QED BY <2>8 DEF old, new
<1>4. CASE t - m > Gap
  <2>1. /\ IsFiniteSet(Holes(U) \cup {m})
        /\ Cardinality(Holes(U) \cup {m}) = Cardinality(Holes(U)) + 1
    BY <1>1, FS_AddElement
  <2> QED BY <1>3, <1>4, <2>1
<1>5. CASE ~(t - m > Gap)
  BY <1>3, <1>5
<1> QED BY <1>4, <1>5

LEMMA TimesGrow ==
    ASSUME NEW s \in Seq(Dot), \A i, j \in 1..Len(s) : i < j => s[i].t < s[j].t,
           NEW i \in 1..Len(s), i > 1, IsFiniteSet(Holes(TimesTo(s, i - 1)))
    PROVE  /\ IsFiniteSet(Holes(TimesTo(s, i)))
           /\ Cardinality(Holes(TimesTo(s, i)))
                = IF s[i].t - s[i - 1].t > Gap THEN Cardinality(Holes(TimesTo(s, i - 1))) + 1
                  ELSE Cardinality(Holes(TimesTo(s, i - 1)))
<1> DEFINE U == TimesTo(s, i - 1)
           m == s[i - 1].t
           t == s[i].t
<1>1. i - 1 \in 1..(i - 1) /\ i - 1 \in 1..Len(s) /\ \A k \in 1..(i - 1) : k \in 1..Len(s)
  OBVIOUS
<1>2. \A k \in 1..Len(s) : s[k] \in Dot /\ s[k].t \in Nat
  <2>1. \A k \in 1..Len(s) : s[k] \in Dot
    OBVIOUS
  <2> QED BY <2>1 DEF Dot
<1>3. U \in SUBSET Nat /\ m \in U
  BY <1>1, <1>2 DEF TimesTo
<1>4. \A k \in 1..(i - 1) : s[k].t <= m
  <2> SUFFICES ASSUME NEW k \in 1..(i - 1) PROVE s[k].t <= m
    OBVIOUS
  <2>1. k = i - 1 \/ k < i - 1
    OBVIOUS
  <2> QED BY <1>1, <1>2, <2>1
<1>5. \A u \in U : u <= m
  BY <1>4 DEF TimesTo
<1>6. t \in Nat /\ m < t
  BY <1>1, <1>2
<1>7. TimesTo(s, i) = U \cup {t}
  <2>1. \A k \in 1..i : k = i \/ k \in 1..(i - 1)
    OBVIOUS
  <2>2. i \in 1..i /\ \A k \in 1..(i - 1) : k \in 1..i
    OBVIOUS
  <2> QED BY <2>1, <2>2 DEF TimesTo
<1> HIDE DEF U, m, t
<1>8. IsFiniteSet(Holes(U))
  BY DEF U
<1>9. /\ IsFiniteSet(Holes(U \cup {t}))
      /\ Cardinality(Holes(U \cup {t}))
           = IF t - m > Gap THEN Cardinality(Holes(U)) + 1 ELSE Cardinality(Holes(U))
  BY <1>3, <1>5, <1>6, <1>8, HolesGrow
<1> QED BY <1>7, <1>9 DEF U, m, t

LEMMA FirstStroke ==
    ASSUME NEW s \in Seq(Dot), s # << >>, NEW hold \in BOOLEAN
    PROVE  Strokes(AddPoint(<< >>, s[1], hold), s, 1, hold)
<1> DEFINE p == s[1]
           r == << <<p>> >>
<1>1. p \in Dot /\ p.t \in Nat
  <2>1. p \in Dot
    OBVIOUS
  <2> QED BY <2>1 DEF Dot
<1>2. AddPoint(<< >>, p, hold) = r
  BY DEF AddPoint
<1>3. <<p>> \in Stroke /\ r \in Seq(Stroke) /\ r # << >> /\ Len(r) = 1 /\ r[1] = <<p>>
  BY <1>1 DEF Stroke
<1>4. Last(r[Len(r)]) = p
  BY <1>3 DEF Last
<1>5. Shown(r) = {p}
  <2>1. ToSet(<<p>>) = {p}
    BY DEF ToSet
  <2>2. DOMAIN r = {1}
    BY <1>3
  <2> QED BY <1>3, <2>1, <2>2 DEF Shown
<1>6. Holes(TimesTo(s, 1)) = {}
  <2>1. TimesTo(s, 1) = {p.t}
    BY DEF TimesTo
  <2> QED BY <1>1, <2>1 DEF Holes
<1>7. IsFiniteSet({}) /\ Cardinality({}) = 0
  BY FS_EmptySet
<1>8. Unbroken(<<p>>)
  BY DEF Unbroken
<1> HIDE DEF r, p
<1>9. Strokes(r, s, 1, hold)
  <2>1. \A k \in 1..1 : s[k] = p
    BY DEF p
  <2>2. 1 \in 1..1 /\ s[1] = p
    BY DEF p
  <2>3. \A x \in Shown(r) : \E k \in 1..1 : x = s[k]
    BY <1>5, <2>2
  <2>4. \A k \in 1..1 : s[k] \in Shown(r)
    BY <1>5, <2>1
  <2>5. \A x \in 1..Len(r) : Unbroken(r[x]) /\ ~(x > 1) /\ ~(x < Len(r))
    BY <1>3, <1>8
  <2>6. /\ IsFiniteSet(Holes(TimesTo(s, 1)))
        /\ Len(r) = 1 + Cardinality(Holes(TimesTo(s, 1)))
    <3> DEFINE H == Holes(TimesTo(s, 1))
    <3>1. H = {}
      BY <1>6
    <3> HIDE DEF H
    <3>2. IsFiniteSet(H) /\ Cardinality(H) = 0
      BY ONLY <1>7, <3>1
    <3> QED BY <1>3, <3>2 DEF H
  <2> QED BY <1>3, <1>4, <2>2, <2>3, <2>4, <2>5, <2>6 DEF Strokes
<1> QED BY <1>2, <1>9 DEF p

(* A stroke that goes on as another one did. *)
GoesOn(a, b) == Len(b) \in Nat /\ Len(a) \in Nat /\ Len(a) >= Len(b) /\ \A j \in 1..Len(b) : a[j] = b[j]

LEMMA AppendGoesOn ==
    ASSUME NEW seg \in Stroke, NEW p \in Dot, Unbroken(seg), p.t - Last(seg).t \in 0..Gap
    PROVE  LET a == Append(seg, p)
           IN  /\ a \in Stroke /\ GoesOn(a, seg) /\ Len(seg) >= 1 /\ Last(a) = p
               /\ Unbroken(a) /\ ToSet(a) = ToSet(seg) \cup {p}
<1> DEFINE a == Append(seg, p)
           n == Len(seg)
<1>1. n \in Nat /\ n >= 1 /\ Last(seg) = seg[n] /\ seg \in Seq(Dot)
  BY LastIs DEF Stroke
<1>2. a \in Seq(Dot) /\ Len(a) = n + 1 /\ a[n + 1] = p /\ \A j \in 1..n : a[j] = seg[j]
  BY <1>1
<1> HIDE DEF a, n
<1>3. a # << >> /\ Last(a) = p
  BY <1>1, <1>2 DEF Last
<1>4. GoesOn(a, seg)
  BY <1>1, <1>2 DEF GoesOn, n
<1>5. Unbroken(a)
  <2> SUFFICES ASSUME NEW j \in 1..n PROVE a[j + 1].t - a[j].t \in 0..Gap
    BY <1>1, <1>2 DEF Unbroken
  <2>1. CASE j = n
    BY <1>1, <1>2, <2>1
  <2>2. CASE j # n
    <3>1. j \in 1..(n - 1) /\ j + 1 \in 1..n
      BY <1>1, <2>2
    <3>2. seg[j + 1].t - seg[j].t \in 0..Gap
      BY <3>1 DEF Unbroken, n
    <3> QED BY <1>2, <3>1, <3>2
  <2> QED BY <2>1, <2>2
<1>6. ToSet(a) = ToSet(seg) \cup {p}
  <2>1. DOMAIN a = 1..(n + 1) /\ DOMAIN seg = 1..n
    BY <1>1, <1>2 DEF n
  <2>2. \A j \in 1..(n + 1) : j = n + 1 \/ j \in 1..n
    BY <1>1
  <2>3. n + 1 \in 1..(n + 1) /\ \A j \in 1..n : j \in 1..(n + 1)
    BY <1>1
  <2> QED BY <1>2, <2>1, <2>2, <2>3 DEF ToSet
<1> QED BY <1>1, <1>2, <1>3, <1>4, <1>5, <1>6 DEF Stroke, a, n

LEMMA DropGoesOn ==
    ASSUME NEW seg \in Stroke, NEW hold \in BOOLEAN, Unbroken(seg)
    PROVE  LET d == Drop(seg, hold)
           IN  /\ d \in Stroke /\ GoesOn(d, seg) /\ Len(seg) >= 1
               /\ AtZero(Last(d), hold) /\ Last(d).t = Last(seg).t
               /\ hold => d = seg
               /\ Unbroken(d)
<1> DEFINE d == Drop(seg, hold)
           n == Len(seg)
<1>1. /\ d \in Stroke /\ n \in Nat /\ n >= 1
      /\ AtZero(Last(d), hold) /\ Last(d).t = Last(seg).t
      /\ hold => d = seg
      /\ \A i \in 1..n : d[i] = seg[i]
      /\ \/ Len(d) = n
         \/ Len(d) = n + 1 /\ d[Len(d)] = Zero(Last(seg))
  BY DropIs
<1> HIDE DEF d
<1>2. GoesOn(d, seg)
  BY <1>1 DEF GoesOn
<1>3. Last(seg) = seg[n] /\ Last(seg) \in Dot
  BY LastIs DEF Stroke
<1>4. Unbroken(d)
  <2> SUFFICES ASSUME NEW j \in 1..(Len(d) - 1) PROVE d[j + 1].t - d[j].t \in 0..Gap
    BY DEF Unbroken
  <2>1. CASE j \in 1..(n - 1)
    <3>1. j \in 1..n /\ j + 1 \in 1..n
      BY <1>1, <2>1
    <3>2. seg[j + 1].t - seg[j].t \in 0..Gap
      BY <2>1 DEF Unbroken
    <3> QED BY <1>1, <3>1, <3>2
  <2>2. CASE j \notin 1..(n - 1)
    <3>1. j = n /\ Len(d) = n + 1 /\ d[n + 1] = Zero(Last(seg)) /\ d[n] = Last(seg)
      BY <1>1, <1>3, <2>2
    <3>2. d[j + 1].t = Last(seg).t /\ d[j].t = Last(seg).t /\ Last(seg).t \in Nat
      BY <1>3, <3>1 DEF Zero, Dot
    <3> QED BY <3>2, ChartsAssumption
  <2> QED BY <2>1, <2>2
<1> QED BY <1>1, <1>2, <1>4 DEF d

LEMMA RiseIsUnbroken ==
    ASSUME NEW p \in Dot, NEW hold \in BOOLEAN
    PROVE  LET r == Rise(p, hold)
           IN  /\ r \in Stroke /\ AtZero(r[1], hold) /\ Last(r) = p /\ Unbroken(r)
               /\ p \in ToSet(r)
               /\ hold => ToSet(r) = {p}
<1> DEFINE r == Rise(p, hold)
<1>1. /\ r \in Stroke /\ AtZero(r[1], hold) /\ r[Len(r)] = p
      /\ hold => r = <<p>>
      /\ r = <<p>> \/ r = <<Zero(p), p>>
  BY RiseIs
<1> HIDE DEF r
<1>2. Last(r) = p
  BY <1>1 DEF Last
<1>3. CASE r = <<p>>
  <2>1. Unbroken(r)
    BY <1>3 DEF Unbroken
  <2>2. ToSet(r) = {p}
    BY <1>3 DEF ToSet
  <2> QED BY <1>1, <1>2, <2>1, <2>2 DEF r
<1>4. CASE r = <<Zero(p), p>> /\ ~hold
  <2>1. p.t \in Nat /\ Zero(p).t = p.t
    BY DEF Dot, Zero
  <2>2. Len(r) = 2 /\ r[1] = Zero(p) /\ r[2] = p /\ 2 \in DOMAIN r
    BY <1>4
  <2>3. Unbroken(r)
    <3>1. \A j \in 1..(Len(r) - 1) : j = 1
      BY <2>2
    <3>2. r[1 + 1].t - r[1].t = 0
      BY <2>1, <2>2
    <3> QED BY <3>1, <3>2, ChartsAssumption DEF Unbroken
  <2>4. p \in ToSet(r)
    BY <2>2 DEF ToSet
  <2> QED BY <1>1, <1>2, <1>4, <2>3, <2>4 DEF r
<1> QED BY <1>1, <1>3, <1>4

(* What goes on still shows what it showed.                                *)
LEMMA ShownGoesOn ==
    ASSUME NEW segs \in Seq(Stroke), NEW r \in Seq(Stroke),
           Len(r) >= Len(segs), \A x \in 1..Len(segs) : GoesOn(r[x], segs[x])
    PROVE  Shown(segs) \subseteq Shown(r)
<1> SUFFICES ASSUME NEW q \in Shown(segs) PROVE q \in Shown(r)
  OBVIOUS
<1>1. PICK x \in 1..Len(segs) : q \in ToSet(segs[x])
  BY DEF Shown
<1>2. segs[x] \in Seq(Dot) /\ x \in DOMAIN r /\ r[x] \in Seq(Dot) /\ GoesOn(r[x], segs[x])
  BY DEF Stroke
<1>3. PICK j \in 1..Len(segs[x]) : q = segs[x][j]
  BY <1>1, <1>2 DEF ToSet
<1>4. j \in DOMAIN r[x] /\ r[x][j] = q
  BY <1>2, <1>3 DEF GoesOn
<1>5. q \in ToSet(r[x])
  BY <1>4 DEF ToSet
<1> QED BY <1>2, <1>5 DEF Shown

(* One more sample.                                                        *)
LEMMA NextStroke ==
    ASSUME NEW s \in Seq(Dot), \A i, j \in 1..Len(s) : i < j => s[i].t < s[j].t,
           NEW i \in 1..Len(s), i > 1, NEW hold \in BOOLEAN,
           NEW segs, Strokes(segs, s, i - 1, hold)
    PROVE  Strokes(AddPoint(segs, s[i], hold), s, i, hold)
<1> DEFINE p == s[i]
           r == AddPoint(segs, p, hold)
           n == Len(segs)
           q == s[i - 1]
           gap == p.t - q.t > Gap
           last == segs[n]
<1>1. p \in Dot /\ q \in Dot
  OBVIOUS
<1>2. /\ segs \in Seq(Stroke) /\ segs # << >> /\ Last(last) = q
      /\ \A k \in 1..(i - 1) : s[k] \in Shown(segs)
      /\ hold => \A x \in Shown(segs) : \E k \in 1..(i - 1) : x = s[k]
      /\ IsFiniteSet(Holes(TimesTo(s, i - 1)))
      /\ n = 1 + Cardinality(Holes(TimesTo(s, i - 1)))
      /\ \A x \in 1..n :
            /\ Unbroken(segs[x])
            /\ x > 1 => AtZero(segs[x][1], hold)
            /\ x < n => AtZero(Last(segs[x]), hold)
  BY DEF Strokes
<1>3. /\ r \in Seq(Stroke) /\ n \in Nat /\ n >= 1
      /\ \A x \in 1..(n - 1) : r[x] = segs[x]
      /\ ~gap => Len(r) = n /\ r[n] = Append(last, p)
      /\ gap => Len(r) = n + 1 /\ r[n] = Drop(last, hold) /\ r[n + 1] = Rise(p, hold)
  BY <1>1, <1>2, AddPointIs
<1>4. p.t \in Nat /\ q.t \in Nat /\ q.t < p.t
  BY <1>1 DEF Dot
<1>5. last \in Stroke /\ Unbroken(last) /\ (n > 1 => AtZero(last[1], hold))
  BY <1>2, <1>3
<1>6. /\ IsFiniteSet(Holes(TimesTo(s, i)))
      /\ Cardinality(Holes(TimesTo(s, i)))
           = IF gap THEN Cardinality(Holes(TimesTo(s, i - 1))) + 1
             ELSE Cardinality(Holes(TimesTo(s, i - 1)))
  BY <1>2, TimesGrow
<1> HIDE DEF r
<1>7. GoesOn(r[n], last) /\ Len(last) >= 1 /\ Unbroken(r[n])
      /\ (gap => AtZero(Last(r[n]), hold))
  <2>1. CASE gap
    BY <1>3, <1>5, <2>1, DropGoesOn
  <2>2. CASE ~gap
    <3>1. p.t - Last(last).t \in 0..Gap
      BY <1>2, <1>4, <2>2, ChartsAssumption
    <3> QED BY <1>1, <1>3, <1>5, <2>2, <3>1, AppendGoesOn
  <2> QED BY <2>1, <2>2
<1>8. Len(r) >= n /\ \A x \in 1..n : GoesOn(r[x], segs[x])
  <2>1. Len(r) >= n
    BY <1>3
  <2>2. ASSUME NEW x \in 1..n PROVE GoesOn(r[x], segs[x])
    <3>1. CASE x = n
      BY <1>7, <3>1
    <3>2. CASE x # n
      <4>1. x \in 1..(n - 1)
        BY <1>3, <3>2
      <4>2. r[x] = segs[x]
        BY <1>3, <4>1
      <4>3. segs[x] \in Stroke
        BY <1>2
      <4>4. Len(segs[x]) \in Nat
        BY <4>3 DEF Stroke
      <4> QED BY <4>2, <4>4 DEF GoesOn
    <3> QED BY <3>1, <3>2
  <2> QED BY <2>1, <2>2
<1>9. Shown(segs) \subseteq Shown(r)
  BY <1>2, <1>3, <1>8, ShownGoesOn
<1>10. p \in Shown(r) /\ Last(r[Len(r)]) = p
  <2>1. CASE gap
    <3>1. Last(r[n + 1]) = p /\ p \in ToSet(r[n + 1])
      <4>1. r[n + 1] = Rise(p, hold)
        BY <1>3, <2>1
      <4>2. Last(Rise(p, hold)) = p /\ p \in ToSet(Rise(p, hold))
        BY <1>1, RiseIsUnbroken
      <4> QED BY <4>1, <4>2
    <3>2. n + 1 \in DOMAIN r
      BY <1>3, <2>1
    <3> QED BY <1>3, <2>1, <3>1, <3>2 DEF Shown
  <2>2. CASE ~gap
    <3>1. p.t - Last(last).t \in 0..Gap
      BY <1>2, <1>4, <2>2, ChartsAssumption
    <3>2. Last(r[n]) = p /\ p \in ToSet(r[n])
      BY <1>1, <1>3, <1>5, <2>2, <3>1, AppendGoesOn
    <3>3. n \in DOMAIN r
      BY <1>3, <2>2
    <3> QED BY <1>3, <2>2, <3>2, <3>3 DEF Shown
  <2> QED BY <2>1, <2>2
<1>11. ASSUME hold, NEW x \in Shown(r) PROVE \E k \in 1..i : x = s[k]
  <2>1. ASSUME NEW y \in 1..n, x \in ToSet(segs[y]) PROVE \E k \in 1..i : x = s[k]
    <3>1. x \in Shown(segs)
      BY <1>2, <2>1 DEF Shown
    <3>2. PICK k \in 1..(i - 1) : x = s[k]
      BY <1>2, <1>11, <3>1
    <3> QED BY <3>2
  <2>2. CASE x = p
    BY <2>2
  <2>3. PICK y \in DOMAIN r : x \in ToSet(r[y])
    BY DEF Shown
  <2>4. CASE y \in 1..(n - 1)
    BY <1>3, <2>1, <2>3, <2>4
  <2>5. CASE y = n
    <3>1. ToSet(r[n]) \subseteq ToSet(last) \cup {p}
      <4>1. CASE gap
        <5>1. r[n] = last
          BY <1>3, <1>5, <1>11, <4>1, DropGoesOn
        <5> QED BY <5>1
      <4>2. CASE ~gap
        <5>1. p.t - Last(last).t \in 0..Gap
          BY <1>2, <1>4, <4>2, ChartsAssumption
        <5> QED BY <1>1, <1>3, <1>5, <4>2, <5>1, AppendGoesOn
      <4> QED BY <4>1, <4>2
    <3>2. n \in 1..n
      BY <1>3
    <3> QED BY <2>1, <2>2, <2>3, <2>5, <3>1, <3>2
  <2>6. CASE y = n + 1
    <3>1. gap
      BY <1>3, <2>6
    <3>2. ToSet(r[n + 1]) = {p}
      <4>1. r[n + 1] = Rise(p, hold)
        BY <1>3, <3>1
      <4>2. ToSet(Rise(p, hold)) = {p}
        BY <1>1, <1>11, RiseIsUnbroken
      <4> QED BY <4>1, <4>2
    <3> QED BY <2>2, <2>3, <2>6, <3>2
  <2>7. y \in 1..(n - 1) \/ y = n \/ y = n + 1
    BY <1>3
  <2> QED BY <2>4, <2>5, <2>6, <2>7
<1>12. ASSUME NEW x \in 1..Len(r)
       PROVE  /\ Unbroken(r[x])
              /\ x > 1 => AtZero(r[x][1], hold)
              /\ x < Len(r) => AtZero(Last(r[x]), hold)
  <2>1. CASE x \in 1..(n - 1)
    <3>1. r[x] = segs[x] /\ x \in 1..n /\ x < n
      BY <1>3, <2>1
    <3> QED BY <1>2, <3>1
  <2>2. CASE x = n
    <3>1. r[n][1] = last[1]
      BY <1>7 DEF GoesOn
    <3> QED BY <1>3, <1>5, <1>7, <2>2, <3>1
  <2>3. CASE x = n + 1
    <3>1. gap
      BY <1>3, <2>3
    <3>2. Len(r) = n + 1 /\ r[x] = Rise(p, hold)
      BY <1>3, <2>3, <3>1
    <3>3. AtZero(Rise(p, hold)[1], hold) /\ Unbroken(Rise(p, hold))
      BY <1>1, RiseIsUnbroken
    <3> QED BY <1>3, <2>3, <3>2, <3>3
  <2>4. x \in 1..(n - 1) \/ x = n \/ x = n + 1
    BY <1>3
  <2> QED BY <2>1, <2>2, <2>3, <2>4
<1>13. ASSUME NEW k \in 1..i PROVE s[k] \in Shown(r)
  <2>1. k = i \/ k \in 1..(i - 1)
    OBVIOUS
  <2> QED BY <1>2, <1>9, <1>10, <2>1
<1>14. Len(r) = 1 + Cardinality(Holes(TimesTo(s, i)))
  <2> DEFINE old == Cardinality(Holes(TimesTo(s, i - 1)))
             new == Cardinality(Holes(TimesTo(s, i)))
  <2>1. old \in Nat
    BY <1>2, FS_CardinalityType
  <2>2. n = 1 + old /\ new = IF gap THEN old + 1 ELSE old
    BY <1>2, <1>6
  <2> HIDE DEF old, new, gap, n
  <2>3. ~gap => Len(r) = n
    BY <1>3
  <2>4. gap => Len(r) = n + 1
    BY <1>3
  <2>5. Len(r) = 1 + new
    BY ONLY <2>1, <2>2, <2>3, <2>4
  <2> QED BY <2>5 DEF new
<1>15. r # << >>
  BY <1>3
<1>16. Strokes(r, s, i, hold)
  BY <1>3, <1>6, <1>10, <1>11, <1>12, <1>13, <1>14, <1>15 DEF Strokes
<1> QED BY <1>16 DEF r

(* All samples, one after the other.                                       *)
LEMMA FoldPoints ==
    ASSUME NEW s \in Seq(Dot), NEW hold \in BOOLEAN,
           NEW K \in [0..Len(s) -> SUBSET Seq(Stroke)], << >> \in K[0],
           \A i \in 1..Len(s) : \A segs \in K[i - 1] : AddPoint(segs, s[i], hold) \in K[i]
    PROVE  FoldLeft(LAMBDA acc, p : AddPoint(acc, p, hold), << >>, s) \in K[Len(s)]
<1> DEFINE n == Len(s)
           X == Seq(Stroke)
           step == [i \in 1..n |-> [segs \in X |-> AddPoint(segs, s[i], hold)]]
           P(f) == f = [d \in SUBSET DOMAIN s |->
                          IF d = {} THEN << >>
                          ELSE AddPoint(f[d \ {Max(d)}], s[Max(d)], hold)]
           f == CHOOSE f : P(f)
<1>1. n \in Nat /\ DOMAIN s = 1..n /\ \A i \in 1..n : s[i] \in Dot
  OBVIOUS
<1>2. FoldLeft(LAMBDA acc, p : AddPoint(acc, p, hold), << >>, s) = f[1..n]
  BY <1>1 DEF FoldLeft, MapThenFoldSet
<1> HIDE DEF n
<1>3. ASSUME NEW i \in 1..n, NEW segs \in X
      PROVE  AddPoint(segs, s[i], hold) \in X
  <2>1. CASE segs = << >>
    <3>1. <<s[i]>> \in Stroke
      BY <1>1 DEF Stroke
    <3> QED BY <2>1, <3>1 DEF AddPoint
  <2>2. CASE segs # << >>
    BY <1>1, <2>2, AddPointIs
  <2> QED BY <2>1, <2>2
<1>4. step \in [1..n -> [X -> X]] /\ << >> \in X
  BY <1>3
<1>5. \E g \in [SUBSET (1..n) -> X] : FoldsBy(g, n, << >>, step)
  <2> HIDE DEF step, P, f, X
  <2> QED BY <1>1, <1>4, FoldExists
<1>6. PICK g \in [SUBSET (1..n) -> X] : FoldsBy(g, n, << >>, step)
  BY <1>5
<1>7. ASSUME NEW d \in SUBSET (1..n)
      PROVE  g[d] = IF d = {} THEN << >>
                    ELSE AddPoint(g[d \ {Max(d)}], s[Max(d)], hold)
  <2>1. CASE d = {}
    BY <1>6, <2>1 DEF FoldsBy
  <2>2. CASE d # {}
    <3>1. Max(d) \in 1..n
      BY <1>1, <2>2, MaxIn
    <3>2. g[d \ {Max(d)}] \in X
      OBVIOUS
    <3>3. g[d] = step[Max(d)][g[d \ {Max(d)}]]
      BY <1>6, <2>2 DEF FoldsBy
    <3> QED BY <2>2, <3>1, <3>2, <3>3
  <2> QED BY <2>1, <2>2
<1>8. P(g)
  BY <1>1, <1>7
<1>9. P(f)
  <2> HIDE DEF P
  <2> QED BY <1>8
<1> HIDE DEF f, step
<1>10. /\ f[{}] = << >>
       /\ \A i \in 1..n : f[1..i] = AddPoint(f[1..(i - 1)], s[i], hold)
  <2>1. f[{}] = << >>
    BY <1>9
  <2>2. ASSUME NEW i \in 1..n PROVE f[1..i] = AddPoint(f[1..(i - 1)], s[i], hold)
    <3>1. /\ 1..i \in SUBSET (1..n) /\ 1..i # {}
          /\ Max(1..i) = i /\ (1..i) \ {i} = 1..(i - 1)
      BY <1>1, FoldSteps
    <3> QED BY <1>1, <1>9, <3>1
  <2> QED BY <2>1, <2>2
<1> HIDE DEF P
<1> DEFINE S == { i \in 0..n : f[1..i] \in K[i] }
<1>11. 0 \in S
  <2>1. 1..0 = {} /\ 0 \in 0..n
    BY <1>1
  <2> QED BY <1>10, <2>1
<1>12. ASSUME NEW i \in 1..n, i - 1 \in S PROVE i \in S
  <2>1. f[1..(i - 1)] \in K[i - 1] /\ i \in 0..n
    BY <1>1, <1>12
  <2> QED BY <1>10, <2>1 DEF n
<1> HIDE DEF S
<1>13. n \in S
  <2>1. 0..n \subseteq S
    BY <1>1, <1>11, <1>12, InductionUpTo
  <2> QED BY <1>1, <2>1
<1> QED BY <1>2, <1>13 DEF S, n

LEMMA AllStrokes ==
    ASSUME NEW s \in Seq(Dot), s # << >>, NEW hold \in BOOLEAN,
           \A i, j \in 1..Len(s) : i < j => s[i].t < s[j].t
    PROVE  Strokes(FoldLeft(LAMBDA acc, p : AddPoint(acc, p, hold), << >>, s), s, Len(s), hold)
<1> DEFINE n == Len(s)
           K == [i \in 0..n |-> { segs \in Seq(Stroke) :
                                    IF i = 0 THEN segs = << >> ELSE Strokes(segs, s, i, hold) }]
<1>1. n \in Nat /\ n >= 1
  OBVIOUS
<1>2. K \in [0..n -> SUBSET Seq(Stroke)] /\ << >> \in K[0]
  BY <1>1
<1>3. ASSUME NEW i \in 1..n, NEW segs \in K[i - 1]
      PROVE  AddPoint(segs, s[i], hold) \in K[i]
  <2>1. Strokes(AddPoint(segs, s[i], hold), s, i, hold)
    <3>1. CASE i = 1
      <4>1. segs = << >>
        BY <3>1
      <4> QED BY <3>1, <4>1, FirstStroke
    <3>2. CASE i > 1
      <4>1. Strokes(segs, s, i - 1, hold)
        BY <3>2
      <4> QED BY <3>2, <4>1, NextStroke
    <3> QED BY <3>1, <3>2
  <2>2. AddPoint(segs, s[i], hold) \in Seq(Stroke)
    BY <2>1 DEF Strokes
  <2>3. i \in 0..n /\ i # 0
    BY <1>1
  <2> QED BY <2>1, <2>2, <2>3
<1>4. \A x \in K[n] : Strokes(x, s, n, hold)
  BY <1>1
<1> HIDE DEF K
<1>5. FoldLeft(LAMBDA acc, p : AddPoint(acc, p, hold), << >>, s) \in K[n]
  BY <1>2, <1>3, FoldPoints
<1> QED BY <1>4, <1>5

(* The strokes of a line, when the last one has dropped for an old sample. *)
LEMMA SegmentsShow ==
    ASSUME NEW points \in SUBSET Dot, IsFiniteSet(points), points # {}, TimesDiffer(points),
           NEW hold \in BOOLEAN, now \in Nat
    PROVE  Faithful(points, hold)
<1> DEFINE s == ByTime(points)
           n == Len(s)
           segs == FoldLeft(LAMBDA acc, p : AddPoint(acc, p, hold), << >>, s)
           m == Len(segs)
           last == segs[m]
           late == now - Last(last).t > Gap
           out == Segments(points, now, hold)
           times == { p.t : p \in points }
<1>1. /\ s \in Seq(points) /\ ToSet(s) = points
      /\ \A i, j \in 1..n : i < j => s[i].t < s[j].t
  BY ByTimeIs
<1>2. s \in Seq(Dot) /\ s # << >> /\ n \in Nat /\ n >= 1 /\ DOMAIN s = 1..n
  <2>1. s # << >>
    <3>1. ToSet(<< >>) = {}
      BY DEF ToSet
    <3> QED BY <1>1, <3>1
  <2> HIDE DEF s
  <2> QED BY <1>1, <2>1
<1>3. \A p : p \in points <=> \E k \in 1..n : p = s[k]
  <2>1. points = { s[k] : k \in 1..n }
    BY <1>1, <1>2 DEF ToSet
  <2> HIDE DEF s, n
  <2> QED BY <2>1
<1>4. out = IF segs # << >> /\ now - Last(Last(segs)).t > Gap
            THEN Append(Front(segs), Drop(Last(segs), hold)) ELSE segs
  BY DEF Segments
<1> HIDE DEF s, out
<1>5. Strokes(segs, s, n, hold)
  BY <1>1, <1>2, AllStrokes
<1> HIDE DEF segs, n
<1>6. TimesTo(s, n) = times
  BY <1>3 DEF TimesTo
<1>7. /\ segs \in Seq(Stroke) /\ segs # << >>
      /\ points \subseteq Shown(segs)
      /\ hold => Shown(segs) \subseteq points
      /\ m = 1 + Cardinality(Holes(times))
      /\ \A x \in 1..m :
            /\ Unbroken(segs[x])
            /\ x > 1 => AtZero(segs[x][1], hold)
            /\ x < m => AtZero(Last(segs[x]), hold)
  BY <1>3, <1>5, <1>6 DEF Strokes
<1> HIDE DEF times
<1>8. /\ m \in Nat /\ m >= 1 /\ Last(segs) = last /\ last \in Stroke
      /\ Front(segs) \in Seq(Stroke) /\ Len(Front(segs)) = m - 1
      /\ \A x \in 1..(m - 1) : Front(segs)[x] = segs[x]
  BY <1>7, LastIs
<1>9. /\ Drop(last, hold) \in Stroke /\ GoesOn(Drop(last, hold), last) /\ Len(last) >= 1
      /\ AtZero(Last(Drop(last, hold)), hold) /\ Last(Drop(last, hold)).t = Last(last).t
      /\ hold => Drop(last, hold) = last
      /\ Unbroken(Drop(last, hold))
  <2>1. Unbroken(last)
    BY <1>7, <1>8
  <2> QED BY <1>8, <2>1, DropGoesOn
<1>10. /\ out \in Seq(Stroke) /\ Len(out) = m
       /\ \A x \in 1..(m - 1) : out[x] = segs[x]
       /\ out[m] = IF late THEN Drop(last, hold) ELSE last
  <2>1. CASE late
    <3> DEFINE front == Front(segs)
               d == Drop(last, hold)
    <3>1. out = Append(front, d)
      BY <1>4, <1>7, <1>8, <2>1
    <3>2. /\ front \in Seq(Stroke) /\ Len(front) = m - 1 /\ d \in Stroke
          /\ \A x \in 1..(m - 1) : front[x] = segs[x]
      BY <1>8, <1>9
    <3> HIDE DEF front, d
    <3>3. /\ out \in Seq(Stroke) /\ Len(out) = Len(front) + 1
          /\ out[Len(front) + 1] = d
          /\ \A x \in 1..Len(front) : out[x] = front[x]
      BY <3>1, <3>2
    <3>4. (m - 1) + 1 = m
      BY <1>8
    <3> QED BY <2>1, <3>2, <3>3, <3>4 DEF d
  <2>2. CASE ~late
    <3>1. out = segs
      BY <1>4, <1>8, <2>2
    <3> QED BY <1>7, <2>2, <3>1
  <2> QED BY <2>1, <2>2
<1> DEFINE end == out[m]
<1>11. /\ Unbroken(end) /\ GoesOn(end, last) /\ (hold => end = last)
       /\ now - Last(end).t > Gap => AtZero(Last(end), hold)
       /\ end[1] = last[1]
  <2>1. CASE late
    <3>1. Drop(last, hold)[1] = last[1]
      BY <1>9 DEF GoesOn
    <3> QED BY <1>9, <1>10, <2>1, <3>1
  <2>2. CASE ~late
    <3>1. Len(last) \in Nat
      BY <1>8 DEF Stroke
    <3>2. end = last
      BY <1>10, <2>2
    <3>3. Unbroken(last) /\ GoesOn(last, last)
      BY <1>7, <1>8, <3>1 DEF GoesOn
    <3> QED BY <2>2, <3>2, <3>3
  <2> QED BY <2>1, <2>2
<1>12. ASSUME NEW x \in 1..m
       PROVE  /\ Unbroken(out[x])
              /\ x > 1 => AtZero(out[x][1], hold)
              /\ x < m \/ now - Last(out[x]).t > Gap => AtZero(Last(out[x]), hold)
  <2>1. CASE x = m
    BY <1>7, <1>8, <1>11, <2>1
  <2>2. CASE x # m
    <3>1. x \in 1..(m - 1) /\ x < m
      BY <1>8, <2>2
    <3>2. out[x] = segs[x]
      BY <1>10, <3>1
    <3> QED BY <1>7, <3>1, <3>2
  <2> QED BY <2>1, <2>2
<1>13. points \subseteq Shown(out)
  <2>1. \A x \in 1..m : GoesOn(out[x], segs[x])
    <3> SUFFICES ASSUME NEW x \in 1..m PROVE GoesOn(out[x], segs[x])
      OBVIOUS
    <3>1. CASE x = m
      BY <1>11, <3>1
    <3>2. CASE x # m
      <4>1. x \in 1..(m - 1)
        BY <1>8, <3>2
      <4>2. out[x] = segs[x]
        BY <1>10, <4>1
      <4>3. segs[x] \in Stroke
        BY <1>7
      <4>4. Len(segs[x]) \in Nat
        BY <4>3 DEF Stroke
      <4> QED BY <4>2, <4>4 DEF GoesOn
    <3> QED BY <3>1, <3>2
  <2>2. Len(out) >= m
    BY <1>8, <1>10
  <2>3. Shown(segs) \subseteq Shown(out)
    BY <1>7, <1>10, <2>1, <2>2, ShownGoesOn
  <2> QED BY <1>7, <2>3
<1>14. ASSUME hold PROVE Shown(out) = points
  <2>1. \A x \in 1..m : out[x] = segs[x]
    <3> SUFFICES ASSUME NEW x \in 1..m PROVE out[x] = segs[x]
      OBVIOUS
    <3>1. x = m \/ x \in 1..(m - 1)
      BY <1>8
    <3> QED BY <1>10, <1>11, <1>14, <3>1
  <2>2. DOMAIN out = 1..m /\ DOMAIN segs = 1..m
    BY <1>7, <1>10
  <2>3. Shown(out) \subseteq Shown(segs)
    BY <2>1, <2>2 DEF Shown
  <2> QED BY <1>7, <1>13, <1>14, <2>3
<1>15. \A x \in 1..m : Head(out[x]) = out[x][1]
  <2> SUFFICES ASSUME NEW x \in 1..m PROVE Head(out[x]) = out[x][1]
    OBVIOUS
  <2>1. out[x] \in Stroke
    BY <1>10
  <2>2. out[x] \in Seq(Dot) /\ out[x] # << >>
    BY <2>1 DEF Stroke
  <2> QED BY <2>2
<1>16. DOMAIN out = 1..m
  BY <1>10
<1> HIDE DEF m, last, late, end
<1>17. /\ points \subseteq Shown(out)
       /\ hold => Shown(out) = points
       /\ Len(out) = 1 + Cardinality(Holes(times))
  BY <1>7, <1>10, <1>13, <1>14
<1>18. ASSUME NEW x \in DOMAIN out
       PROVE  /\ Unbroken(out[x])
              /\ x > 1 => AtZero(Head(out[x]), hold)
              /\ x < Len(out) \/ now - Last(out[x]).t > Gap => AtZero(Last(out[x]), hold)
  BY <1>10, <1>12, <1>15, <1>16
<1>19. CASE hold
  BY <1>17, <1>19 DEF Faithful, Shown, out
<1>20. CASE ~hold
  BY <1>17, <1>18, <1>20 DEF Faithful, Shown, Unbroken, AtZero, out, times
<1> QED BY <1>19, <1>20

-----------------------------------------------------------------------------
(* No sample is later than the clock, so those of a line are finitely many *)
(* times.                                                                  *)
NoneLater ==
    /\ \A r \in db : r.t <= now
    /\ \A id \in DOMAIN history : \A p \in ToSet(history[id]) : p.t <= now

StoreInv == OriginInv /\ IF UseSQLite THEN SqlInv ELSE MemInv

LEMMA StoreInvAlways == StoreSpec => []StoreInv
<1>1. CASE UseSQLite
  <2>1. OriginInv /\ SqlInv => StoreInv
    BY <1>1 DEF StoreInv
  <2>2. StoreSpec => []SqlInv
    BY <1>1, SqlInvAlways
  <2> QED BY <2>1, <2>2, StoreOrigin, PTL
<1>2. CASE ~UseSQLite
  <2>1. OriginInv /\ MemInv => StoreInv
    BY <1>2 DEF StoreInv
  <2>2. StoreSpec => []MemInv
    BY <1>2, MemInvAlways
  <2> QED BY <2>1, <2>2, StoreOrigin, PTL
<1> QED BY <1>1, <1>2

LEMMA ClockStep ==
    ASSUME now \in Nat, [StoreNext]_storeVars
    PROVE  now' \in Nat /\ now <= now'
<1>1. ASSUME NEW d, NEW found, NEW order, NEW at, UpsertStart(d, found, order, at)
      PROVE  now' = now
  BY <1>1 DEF UpsertStart, UpsertLive
<1>2. ASSUME NEW ip, NEW found, UpsertError(ip, found)
      PROVE  now' = now
  BY <1>2 DEF UpsertError, UpsertFailed
<1>3. CASE RenameMetrics \/ RenameFails \/ InsertSamples \/ InsertFails
  BY <1>3 DEF RenameMetrics, RenameFails, InsertSamples, InsertFails
<1>4. CASE MarkPoll \/ MarkPollFails \/ UNCHANGED storeVars
  BY <1>4 DEF MarkPoll, MarkPollFails, storeVars
<1>5. CASE PruneFleet \/ RestartStore
  BY <1>5 DEF PruneFleet, RestartStore, Prune, Restart
<1>6. CASE AdvanceStore
  BY <1>6 DEF AdvanceStore, Advance
<1> QED BY <1>1, <1>2, <1>3, <1>4, <1>5, <1>6 DEF StoreNext

LEMMA NoneLaterStep == StoreInv /\ NoneLater /\ [StoreNext]_storeVars => NoneLater'
<1> SUFFICES ASSUME StoreInv, NoneLater, [StoreNext]_storeVars PROVE NoneLater'
  OBVIOUS
<1>1. now \in Nat
  BY FleetAssumption DEF StoreInv, OriginInv, FleetInv, FleetTypeOK
<1>2. now' \in Nat /\ now <= now'
  BY <1>1, ClockStep
<1>3. CASE UseSQLite
  <2>1. /\ db \subseteq Sample /\ TableInv
        /\ work = Idle \/ (work.id \in ID /\ work.point \in Point /\ work.point.t <= now)
    <3>1. ASSUME NEW d \in Reports, WorkOf(d)
          PROVE  work.id \in ID /\ work.point \in Point /\ work.point.t <= now
      BY <1>1, <3>1 DEF WorkOf, Work
    <3> QED BY <1>3, <3>1 DEF StoreInv, SqlInv, TableInv
  <2>2. \A r \in db : r.t \in Nat
    BY <2>1, SampleFields
  <2>3. ASSUME NEW r \in db' PROVE r.t <= now \/ r.t <= now'
    <3>1. CASE RenameMetrics
      <4>1. db' = Renamed(db, Head(work.renames), work.id) /\ work # Idle
        BY <3>1 DEF RenameMetrics, Idle
      <4>2. r \in db \/ \E q \in db : q.t = r.t
        BY <2>1, <4>1, RenamedTable
      <4> QED BY <4>2 DEF NoneLater
    <3>2. CASE InsertSamples
      <4>1. db' = Inserted(db, work.id, work.point) /\ work # Idle
        BY <3>2 DEF InsertSamples
      <4>2. r \in db \/ r.t = work.point.t
        <5>1. work.point.t \in Nat /\ work.point.box \in Optional(Boxes)
          BY <2>1, <4>1 DEF Point
        <5>2. r \in db \/ r = [id |-> work.id, t |-> work.point.t, box |-> work.point.box]
          BY <2>1, <4>1, <5>1, InsertedTable
        <5> QED BY <5>2
      <4> QED BY <2>1, <4>1, <4>2 DEF NoneLater
    <3>3. CASE db' \subseteq db
      BY <3>3 DEF NoneLater
    <3>4. RenameMetrics \/ InsertSamples \/ db' \subseteq db
      <4>1. CASE RenameFails \/ InsertFails \/ MarkPoll \/ MarkPollFails
        BY <4>1 DEF RenameFails, InsertFails, MarkPoll, MarkPollFails
      <4>2. CASE PruneFleet \/ RestartStore \/ AdvanceStore \/ UNCHANGED storeVars
        BY <4>2 DEF PruneFleet, RestartStore, AdvanceStore, storeVars
      <4>3. ASSUME NEW d, NEW found, NEW order, NEW at, UpsertStart(d, found, order, at)
            PROVE  db' = db
        BY <4>3 DEF UpsertStart
      <4>4. ASSUME NEW ip, NEW found, UpsertError(ip, found) PROVE db' = db
        BY <4>4 DEF UpsertError
      <4> QED BY <4>1, <4>2, <4>3, <4>4 DEF StoreNext
    <3> QED BY <3>1, <3>2, <3>3, <3>4
  <2>4. \A r \in db' : r.t \in Nat
    <3>1. db' \subseteq Sample
      <4>1. SqlInv'
        BY <1>3, SqlInvStep DEF StoreInv, OriginInv
      <4> QED BY <4>1 DEF SqlInv, TableInv
    <3> QED BY <3>1, SampleFields
  <2>5. \A r \in db' : r.t <= now'
    BY <1>1, <1>2, <2>3, <2>4
  <2>6. DOMAIN history' = {}
    <3>1. SqlInv'
      BY <1>3, SqlInvStep DEF StoreInv, OriginInv
    <3> QED BY <3>1, NoHistoryIs DEF SqlInv
  <2> QED BY <2>5, <2>6 DEF NoneLater
<1>4. CASE ~UseSQLite
  <2>1. MemInv /\ MemInv'
    BY <1>4, MemInvStep DEF StoreInv, OriginInv
  <2>2. ASSUME NEW h \in Histories, NEW id \in DOMAIN h, NEW p \in ToSet(h[id])
        PROVE  p.t \in Nat
    <3>1. h[id] \in Seq(Point)
      BY HistoryIs
    <3>2. p \in Point
      BY <3>1 DEF ToSet
    <3> QED BY <3>2 DEF Point
  <2>3. ASSUME NEW id \in DOMAIN history', NEW p \in ToSet(history'[id])
        PROVE  p.t <= now
    <3>1. CASE history' = history
      BY <3>1 DEF NoneLater
    <3>2. CASE history' = NoHistory
      BY <3>2, NoHistoryIs
    <3>3. ASSUME NEW d \in Reports, NEW found \in Found(d),
                 NEW order \in RekeyOrders(d, found), NEW at \in PollTimes,
                 UpsertStart(d, found, order, at)
          PROVE  p.t <= now
      <4>1. /\ DOMAIN history' = (DOMAIN history \ Moved(d, found)) \cup {StableID(d)}
            /\ \A k \in DOMAIN history' \ {StableID(d)} : history'[k] = history[k]
            /\ \A q \in ToSet(history'[StableID(d)]) :
                  \/ q = PollPoint(d, at)
                  \/ \E k \in DOMAIN history \cap (Moved(d, found) \cup {StableID(d)}) :
                        q \in ToSet(history[k])
        BY <1>4, <2>1, <3>3, UpsertedSeries DEF MemInv, StoreInv, OriginInv
      <4>2. PollPoint(d, at).t <= now
        BY <1>1 DEF PollPoint, PollTimes
      <4>3. p = PollPoint(d, at) \/ \E k \in DOMAIN history : p \in ToSet(history[k])
        BY <4>1
      <4> QED BY <4>2, <4>3 DEF NoneLater
    <3> QED BY <1>4, <2>1, <3>1, <3>2, <3>3, MemoryStep
  <2>4. \A id \in DOMAIN history' : \A p \in ToSet(history'[id]) : p.t <= now'
    BY <1>1, <1>2, <2>1, <2>2, <2>3 DEF MemInv
  <2> QED BY <2>1, <2>4 DEF MemInv, NoneLater
<1> QED BY <1>3, <1>4

LEMMA NoneLaterAlways == StoreSpec => []NoneLater
<1>1. StoreInit => NoneLater
  BY NoHistoryIs DEF StoreInit, NoneLater
<1> QED BY <1>1, NoneLaterStep, StoreInvAlways, PTL DEF StoreSpec

LEMMA LineTimes ==
    ASSUME StoreInv, StoreTypeOK, NoneLater, NEW key \in Drawn(0, 0),
           NEW times, times = { p.t : p \in LinePoints(key, 0, 0) }
    PROVE  times \subseteq 0..now /\ times # {} /\ now \in Nat
<1>1. now \in Nat
  BY FleetAssumption DEF StoreInv, OriginInv, FleetInv, FleetTypeOK
<1>2. ASSUME NEW id, NEW p \in SeriesPoints(id, 0, 0), id \in SeriesIds(0, 0)
      PROVE  p.t \in 0..now
  <2>1. CASE UseSQLite
    <3>1. PICK r \in db : p = [t |-> r.t, box |-> r.box]
      BY <2>1 DEF SeriesPoints
    <3>2. r.t \in Nat
      BY SampleFields DEF StoreTypeOK
    <3> QED BY <1>1, <3>1, <3>2 DEF NoneLater
  <2>2. CASE ~UseSQLite
    <3>1. id \in DOMAIN history /\ p \in ToSet(history[id])
      BY <1>2, <2>2 DEF SeriesPoints, SeriesIds
    <3>2. history[id] \in Seq(Point)
      BY <3>1 DEF StoreTypeOK
    <3>3. p \in Point
      BY <3>1, <3>2 DEF ToSet
    <3> QED BY <1>1, <3>1, <3>3 DEF NoneLater, Point
  <2> QED BY <2>1, <2>2
<1>3. times \subseteq 0..now
  BY <1>2 DEF LinePoints, LineIds
<1>4. PICK id \in SeriesIds(0, 0) : key \in LineKeys(id)
  BY DEF Drawn, Lines
<1>5. SeriesPoints(id, 0, 0) # {}
  <2>1. \A t : Asked(t, 0, 0)
    BY DEF Asked
  <2>2. CASE UseSQLite
    <3>1. PICK r \in db : r.id = id
      BY <1>4, <2>2 DEF SeriesIds
    <3>2. [t |-> r.t, box |-> r.box] \in SeriesPoints(id, 0, 0)
      BY <2>1, <2>2, <3>1 DEF SeriesPoints
    <3> QED BY <3>2
  <2>3. CASE ~UseSQLite
    <3>1. id \in DOMAIN history
      BY <1>4, <2>3 DEF SeriesIds
    <3>2. history[id] \in Seq(Point) /\ Len(history[id]) \in 1..Points
      BY <3>1 DEF StoreTypeOK
    <3>3. 1 \in DOMAIN history[id]
      BY <3>2, StoreAssumption
    <3>4. history[id][1] \in ToSet(history[id])
      BY <3>3 DEF ToSet
    <3>5. history[id][1] \in SeriesPoints(id, 0, 0)
      BY <2>1, <2>3, <3>4 DEF SeriesPoints
    <3> QED BY <3>5
  <2> QED BY <2>2, <2>3
<1>6. LinePoints(key, 0, 0) # {}
  BY <1>4, <1>5 DEF LinePoints, LineIds
<1>7. times # {}
  BY <1>6
<1> QED BY <1>1, <1>3, <1>7

(* A line as it is stroked breaks at every gap and nowhere else, drops to  *)
(* zero on both sides of one, and shows every sample; that of a metric     *)
(* that accumulates shows its samples and no other point: for any samples, *)
(* of any values, in either mode of the store (chartSegments).             *)
THEOREM GapsAreShown == StoreSpec => []GapsBreakLines
<1>1. StoreInv /\ StoreTypeOK /\ NoneLater => GapsBreakLines
  <2> SUFFICES ASSUME StoreInv, StoreTypeOK, NoneLater, NEW key \in Drawn(0, 0),
                      NEW times, times = { p.t : p \in LinePoints(key, 0, 0) },
                      NEW v \in [times -> 0..1], NEW hold \in BOOLEAN
               PROVE  Faithful({ [t |-> t, v |-> v[t]] : t \in times }, hold)
    BY DEF GapsBreakLines
  <2> DEFINE points == { [t |-> t, v |-> v[t]] : t \in times }
             at == [t \in times |-> [t |-> t, v |-> v[t]]]
  <2>1. times \subseteq 0..now /\ times # {} /\ now \in Nat
    BY LineTimes
  <2>2. IsFiniteSet(times)
    <3>1. IsFiniteSet(0..now)
      BY <2>1, FS_Interval
    <3> QED BY ONLY <2>1, <3>1, FS_Subset
  <2>3. IsFiniteSet(points)
    <3>1. at \in Surjection(times, points)
      BY DEF Surjection
    <3> HIDE DEF at, points
    <3> QED BY ONLY <2>2, <3>1, FS_Surjection
  <2>4. points \in SUBSET Dot /\ points # {}
    <3>1. \A t \in times : v[t] \in Nat /\ t \in Nat
      <4>1. \A t \in times : v[t] \in 0..1
        OBVIOUS
      <4>2. 0..1 \subseteq Nat /\ 0..now \subseteq Nat
        BY <2>1
      <4> QED BY <2>1, <4>1, <4>2
    <3>2. ASSUME NEW t \in times PROVE [t |-> t, v |-> v[t]] \in Dot
      BY <3>1 DEF Dot
    <3>3. points \subseteq Dot
      BY <3>2
    <3>4. PICK t \in times : TRUE
      BY <2>1
    <3>5. [t |-> t, v |-> v[t]] \in points
      OBVIOUS
    <3> HIDE DEF points
    <3> QED BY <3>3, <3>5
  <2>5. TimesDiffer(points)
    BY DEF TimesDiffer
  <2> HIDE DEF points
  <2>6. Faithful(points, hold)
    BY <2>1, <2>3, <2>4, <2>5, SegmentsShow
  <2> QED BY <2>6 DEF points
<1> QED BY <1>1, StoreInvAlways, StoreTypeCorrect, NoneLaterAlways, PTL
=============================================================================
