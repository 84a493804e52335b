----------------------------- MODULE SoundProofs -----------------------------
(***************************************************************************)
(* FreeRDP's sound is not cut short, and its devices leave nothing behind, *)
(* for any number of devices and any latencies, volumes and calls.         *)
(***************************************************************************)
EXTENDS SoundDevice, FiniteSetTheorems, TLAPS

\* A finite set of devices with one more, with one less, and empty.
LEMMA Counted ==
  ASSUME IsFiniteSet(Devices), NEW A \in SUBSET Devices
  PROVE  /\ Cardinality(A) \in Nat
         /\ Cardinality(A) = 0 <=> A = {}
         /\ \A d : d \notin A => Cardinality(A \cup {d}) = Cardinality(A) + 1
         /\ \A d : d \in A => Cardinality(A \ {d}) = Cardinality(A) - 1
<1>1. IsFiniteSet(A)
  BY FS_Subset
<1> QED
  BY <1>1, FS_CardinalityType, FS_EmptySet, FS_AddElement, FS_RemoveElement, Zenon

\* The devices of a new session: silent, and not offered.
LEMMA InitSound ==
  ASSUME IsFiniteSet(Devices), 1 \in Gains, Init PROVE IInv
<1>1. Typed
  <2>1. [opened |-> FALSE, failed |-> FALSE, decoder |-> FALSE, gain |-> 1, offering |-> FALSE]
           \in DeviceType
    BY DEF DeviceType
  <2>2. NoStream \in StreamType
    BY DEF StreamType, NoStream
  <2>3. [at |-> "none", left |-> 0] \in CloserType
    BY DEF CloserType
  <2> QED
    BY <2>1, <2>2, <2>3 DEF Init, Typed, Places
<1>2. Timely /\ InVolume /\ Kept
  BY DEF Init, Timely, InVolume, Kept, NoStream
<1>3. Switched
  <2>1. Offered = {}
    BY DEF Init, Offered
  <2>2. count = 0 /\ ~switch
    BY DEF Init
  <2> QED
    BY <2>1, <2>2, Counted DEF Switched
<1>4. Uncrossed
  <2>1. count = 0 /\ switch = FALSE /\ crossed = FALSE /\ \A d \in Devices : at[d] = "none"
    BY DEF Init
  <2>2. switch = FALSE /\ ~(count > 0)
    BY <2>1
  <2>3. SwitchTells
    BY <2>2, Zenon DEF SwitchTells
  <2>4. \A d \in Devices : at[d] \notin Telling /\ at[d] \notin {"withdraw", "leaving"}
    BY <2>1 DEF Telling
  <2> QED
    BY <2>1, <2>3, <2>4, Zenon DEF Uncrossed
<1> QED
  BY <1>1, <1>2, <1>3, <1>4 DEF IInv

\* openLocked leaves the stream with the device's volume and the thread as alive as it was.
LEMMA OpenTyped ==
  ASSUME Typed, NEW d \in Devices, NEW fields \in DeviceType, OpenLocked(d, fields)
  PROVE  /\ dev' \in [Devices -> DeviceType] /\ stream' \in [Devices -> StreamType]
         /\ closer' \in [Devices -> CloserType]
         /\ dev'[d].gain = fields.gain /\ dev'[d].offering = fields.offering
         /\ dev'[d].decoder = fields.decoder
         /\ stream'[d].open => stream'[d].gain = dev'[d].gain
         /\ closer[d].at # "done" <=> closer'[d].at # "done"
         /\ \A e \in Devices \ {d} : dev'[e] = dev[e] /\ stream'[e] = stream[e] /\ closer'[e] = closer[e]
<1>1. dev \in [Devices -> DeviceType] /\ stream \in [Devices -> StreamType] /\ closer \in [Devices -> CloserType] 
  BY DEF Typed
<1>2. CASE /\ stream' = [stream EXCEPT ![d] = [open |-> TRUE, gain |-> fields.gain]]
           /\ dev' = [dev EXCEPT ![d] = fields]
           /\ Signalled(d)
  BY <1>1, <1>2 DEF Signalled, DeviceType, StreamType, CloserType
<1>3. CASE /\ stream' = [stream EXCEPT ![d] = NoStream]
           /\ \E may \in BOOLEAN : dev' = [dev EXCEPT ![d] = [fields EXCEPT !.failed = @ \/ may]]
           /\ UNCHANGED closer
  BY <1>1, <1>3 DEF NoStream, DeviceType, StreamType
<1>4. (fields.opened /\ ~fields.failed) \in BOOLEAN 
  OBVIOUS
<1> QED
  BY <1>2, <1>3, <1>4, Zenon DEF OpenLocked

\* A step of one device leaves the other alone.
SameButFor(d) ==
  \A e \in Devices \ {d} :
    /\ at'[e] = at[e] /\ dev'[e] = dev[e] /\ stream'[e] = stream[e]
    /\ idle'[e] = idle[e] /\ unheard'[e] = unheard[e] /\ closer'[e] = closer[e]

\* A call of the channel keeps the types, and leaves the other device alone.
LEMMA CallTyped ==
  ASSUME Grace \in Nat, Latencies \subseteq Nat, Typed, NEW d \in Devices,
         dev[d].offering => count > 0,
         \/ Entry(d) \/ ServerFormatAnnounce(d) \/ Open(d) \/ PlayEx(d)
         \/ SetVolume(d) \/ Close(d) \/ Free(d)
  PROVE  Typed' /\ SameButFor(d)
<1>1. /\ at \in [Devices -> Places] /\ dev \in [Devices -> DeviceType]
      /\ stream \in [Devices -> StreamType] /\ closer \in [Devices -> CloserType]
      /\ idle \in [Devices -> Nat] /\ unheard \in [Devices -> Nat] /\ count \in Nat
  BY DEF Typed
<1>2. dev[d] \in DeviceType
  BY <1>1
<1>3. CASE Entry(d) \/ ServerFormatAnnounce(d) \/ Free(d)
  <2>1. stream' = stream /\ idle' = idle /\ unheard' = unheard
    BY <1>3 DEF Entry, ServerFormatAnnounce, Free, timing
  <2>2. /\ at' \in [Devices -> Places]
        /\ \A e \in Devices \ {d} : at'[e] = at[e]
    BY <1>1, <1>3
    DEF Entry, ServerFormatAnnounce, Free, Offering, StopOffering, Tells, Places
  <2>3. /\ dev' \in [Devices -> DeviceType]
        /\ \A e \in Devices \ {d} : dev'[e] = dev[e]
    <3>1. dev' = dev \/ \E o \in BOOLEAN : dev' = [dev EXCEPT ![d].offering = o]
      BY <1>3, Zenon DEF Entry, ServerFormatAnnounce, Free, Offering, StopOffering
    <3> QED
      BY <1>1, <3>1 DEF DeviceType
  <2>4. count' \in Nat
    BY <1>1, <1>3
    DEF Entry, ServerFormatAnnounce, Free, Offering, StopOffering, offers
  <2>5. /\ closer' \in [Devices -> CloserType]
        /\ \A e \in Devices \ {d} : closer'[e] = closer[e]
    <3>1. closer' = closer \/ \E p \in {"ready", "done"} : closer' = [closer EXCEPT ![d].at = p]
      BY <1>3 DEF Entry, ServerFormatAnnounce, Free
    <3> QED
      BY <1>1, <3>1 DEF CloserType
  <2> QED
    BY <1>1, <2>1, <2>2, <2>3, <2>4, <2>5 DEF Typed, SameButFor
<1>4. CASE Open(d)
  <2>1. /\ at' = at /\ count' = count /\ idle' = [idle EXCEPT ![d] = Grace]
        /\ unheard' = [unheard EXCEPT ![d] = 0]
    BY <1>4, Zenon DEF Open, offers
  <2>2. PICK fields \in DeviceType : OpenLocked(d, fields)
    BY <1>2, <1>4, Zenon DEF Open, DeviceType
  <2>3. /\ dev' \in [Devices -> DeviceType] /\ stream' \in [Devices -> StreamType]
        /\ closer' \in [Devices -> CloserType]
        /\ \A e \in Devices \ {d} :
             dev'[e] = dev[e] /\ stream'[e] = stream[e] /\ closer'[e] = closer[e]
    BY <2>2, OpenTyped
  <2> QED
    BY <1>1, <2>1, <2>3, Zenon DEF Typed, SameButFor
<1>5. CASE PlayEx(d)
  <2>1. at' = at /\ count' = count
    BY <1>5 DEF PlayEx, offers
  <2>2. \/ UNCHANGED timing
        \/ \E latency \in Latencies : /\ idle' = [idle EXCEPT ![d] = latency + Grace]
                                      /\ unheard' = [unheard EXCEPT ![d] = latency]
    BY <1>5 DEF PlayEx, Deadline
  <2>3. /\ idle' \in [Devices -> Nat] /\ unheard' \in [Devices -> Nat]
        /\ \A e \in Devices \ {d} : idle'[e] = idle[e] /\ unheard'[e] = unheard[e]
    BY <1>1, <2>2 DEF timing
  <2>4. /\ dev' \in [Devices -> DeviceType] /\ stream' \in [Devices -> StreamType]
        /\ closer' \in [Devices -> CloserType]
        /\ \A e \in Devices \ {d} :
             dev'[e] = dev[e] /\ stream'[e] = stream[e] /\ closer'[e] = closer[e]
    BY <1>1, <1>2, <1>5, OpenTyped DEF PlayEx
  <2> QED
    BY <1>1, <2>1, <2>3, <2>4 DEF Typed, SameButFor
<1>6. CASE SetVolume(d)
  <2>1. at' = at /\ count' = count /\ idle' = idle /\ unheard' = unheard /\ closer' = closer
    BY <1>6 DEF SetVolume, timing, offers
  <2>2. PICK gain \in Gains :
          /\ dev' = [dev EXCEPT ![d].gain = gain]
          /\ stream' = stream \/ stream' = [stream EXCEPT ![d].gain = gain]
    BY <1>6, Zenon DEF SetVolume
  <2>3. /\ dev' \in [Devices -> DeviceType]
        /\ \A e \in Devices \ {d} : dev'[e] = dev[e]
    BY <1>1, <2>2 DEF DeviceType
  <2>4. /\ stream' \in [Devices -> StreamType]
        /\ \A e \in Devices \ {d} : stream'[e] = stream[e]
    BY <1>1, <2>2, Zenon DEF StreamType
  <2> QED
    BY <1>1, <2>1, <2>3, <2>4 DEF Typed, SameButFor
<1>7. CASE Close(d)
  <2>1. at' = at /\ count' = count /\ idle' = idle /\ unheard' = unheard /\ closer' = closer
    BY <1>7 DEF Close, timing, offers
  <2>2. /\ dev' \in [Devices -> DeviceType]
        /\ \A e \in Devices \ {d} : dev'[e] = dev[e]
    BY <1>1, <1>2, <1>7, Zenon DEF Close, Ended, DeviceType
  <2>3. /\ stream' \in [Devices -> StreamType]
        /\ \A e \in Devices \ {d} : stream'[e] = stream[e]
    BY <1>1, <1>7 DEF Close, Ended, NoStream, StreamType
  <2> QED
    BY <1>1, <2>1, <2>2, <2>3 DEF Typed, SameButFor
<1> QED
  BY <1>3, <1>4, <1>5, <1>6, <1>7

\* The same of what the channel and the closing thread do on their own.
LEMMA ThreadTyped ==
  ASSUME Typed, NEW d \in Devices,
         \/ Tell(d) \/ Quit(d) \/ Join(d) \/ Closer(d) \/ TimedOut(d) \/ Spurious(d)
  PROVE  Typed' /\ SameButFor(d)
<1>1. /\ at \in [Devices -> Places] /\ dev \in [Devices -> DeviceType]
      /\ stream \in [Devices -> StreamType] /\ closer \in [Devices -> CloserType]
      /\ idle \in [Devices -> Nat] /\ unheard \in [Devices -> Nat] /\ count \in Nat
  BY DEF Typed
<1>2. idle' = idle /\ unheard' = unheard /\ count' = count
  BY DEF Tell, Quit, Join, Closer, TimedOut, Spurious, timing, offers
<1>3. /\ at' \in [Devices -> Places]
      /\ \A e \in Devices \ {d} : at'[e] = at[e]
  BY <1>1 DEF Tell, Quit, Join, Closer, TimedOut, Spurious, Places
<1>4. /\ dev' \in [Devices -> DeviceType]
      /\ \A e \in Devices \ {d} : dev'[e] = dev[e]
  <2>1. CASE Quit(d)
    BY <1>1, <2>1, Zenon DEF Quit, Ended, DeviceType
  <2>2. CASE ~Quit(d)
    BY <1>1, <2>2 DEF Tell, Join, Closer, TimedOut, Spurious
  <2> QED
    BY <2>1, <2>2
<1>5. /\ stream' \in [Devices -> StreamType]
      /\ \A e \in Devices \ {d} : stream'[e] = stream[e]
  <2>1. stream' = stream \/ stream' = [stream EXCEPT ![d] = NoStream]
    BY DEF Tell, Quit, Ended, Join, Closer, TimedOut, Spurious
  <2>2. NoStream \in StreamType
    BY DEF StreamType, NoStream
  <2> QED
    BY <1>1, <2>1, <2>2
<1>6. /\ closer' \in [Devices -> CloserType]
      /\ \A e \in Devices \ {d} : closer'[e] = closer[e]
  <2>1. \/ closer' = closer
        \/ \E p \in {"ready", "wait", "done"} : closer' = [closer EXCEPT ![d].at = p]
        \/ \E p \in {"ready", "timed"}, n \in Nat : closer' = [closer EXCEPT ![d] = [at |-> p, left |-> n]]
    BY <1>1 DEF Tell, Quit, Signalled, Join, Closer, TimedOut, Spurious
  <2> QED
    BY <1>1, <2>1 DEF CloserType
<1> QED
  BY <1>1, <1>2, <1>3, <1>4, <1>5, <1>6 DEF Typed, SameButFor

\* And of the clock.
LEMMA TickTyped == ASSUME Typed, Tick PROVE Typed'
<1>1. \A n \in Nat : Less(n) \in Nat
  BY DEF Less
<1>2. idle' \in [Devices -> Nat] /\ unheard' \in [Devices -> Nat]
  BY <1>1 DEF Typed, Tick
<1>3. closer' \in [Devices -> CloserType]
  BY <1>1 DEF Typed, Tick, CloserType
<1>4. UNCHANGED <<at, dev, stream, count>>
  BY DEF Tick, offers
<1> QED
  BY <1>2, <1>3, <1>4 DEF Typed

\* One device's share of Timely, of InVolume and of Kept.
DeviceKept(d) ==
  /\ stream[d].open =>
       /\ stream[d].gain = dev[d].gain
       /\ unheard[d] > 0 => idle[d] >= unheard[d] + Grace
  /\ at[d] = "offer" => dev[d].offering
  /\ at[d] \in {"none", "leaving", "free", "join", "freed"} => ~dev[d].offering
  /\ at[d] \in {"none", "join", "freed"} => ~stream[d].open /\ ~dev[d].decoder
  /\ at[d] = "freed" => closer[d].at = "done"

\* A call of the channel keeps its device so: PlayEx sets a deadline past what it wrote,
\* and SetVolume sets the volume of a stream and of those to come.
LEMMA CallKept ==
  ASSUME Grace \in Nat, Latencies \subseteq Nat, Typed, NEW d \in Devices, DeviceKept(d),
         \/ Entry(d) \/ ServerFormatAnnounce(d) \/ Open(d) \/ PlayEx(d)
         \/ SetVolume(d) \/ Close(d) \/ Free(d)
  PROVE  DeviceKept(d)'
<1>1. /\ at \in [Devices -> Places] /\ dev \in [Devices -> DeviceType]
      /\ stream \in [Devices -> StreamType] /\ closer \in [Devices -> CloserType]
      /\ idle \in [Devices -> Nat] /\ unheard \in [Devices -> Nat] /\ count \in Nat
  BY DEF Typed
<1>2. dev[d] \in DeviceType /\ closer[d] \in CloserType
  BY <1>1
<1> USE DEF DeviceKept
<1>3. CASE Entry(d)
  <2>1. stream' = stream /\ idle' = idle /\ unheard' = unheard /\ at[d] = "none"
    BY <1>3 DEF Entry, Called, timing
  <2>2. CASE Offering(d)
    BY <1>1, <1>2, <2>1, <2>2 DEF Offering, Tells, DeviceType
  <2>3. CASE /\ at' = [at EXCEPT ![d] = "freed"] /\ UNCHANGED dev
             /\ closer' = [closer EXCEPT ![d].at = "done"]
    BY <1>1, <1>2, <2>1, <2>3 DEF CloserType
  <2> QED
    BY <1>3, <2>2, <2>3 DEF Entry
<1>4. CASE ServerFormatAnnounce(d) \/ Free(d)
  <2>1. stream' = stream /\ idle' = idle /\ unheard' = unheard /\ at[d] = "live"
    BY <1>4 DEF ServerFormatAnnounce, Free, Called, timing
  <2>2. CASE Offering(d)
    BY <1>1, <1>2, <2>1, <2>2 DEF Offering, Tells, DeviceType
  <2>3. ASSUME NEW t \in {"withdraw", "leaving"}, NEW u \in {"live", "free"},
               t = "leaving" <=> u = "free", StopOffering(d, t, u)
        PROVE  DeviceKept(d)'
    BY <1>1, <1>2, <2>1, <2>3 DEF StopOffering, Tells, DeviceType
  <2> QED
    BY <1>4, <2>2, <2>3 DEF ServerFormatAnnounce, Free
<1>5. CASE Open(d)
  <2>1. at' = at /\ at[d] = "live" /\ unheard'[d] = 0
    BY <1>1, <1>5, Zenon DEF Open, Called
  <2>2. PICK fields \in DeviceType : OpenLocked(d, fields)
    BY <1>2, <1>5, Zenon DEF Open, DeviceType
  <2>3. stream'[d].open => stream'[d].gain = dev'[d].gain
    BY <2>2, OpenTyped
  <2> QED
    BY <2>1, <2>3
<1>6. CASE PlayEx(d)
  <2>1. at' = at /\ at[d] = "live"
    BY <1>6 DEF PlayEx, Called
  <2>2. stream'[d].open => stream'[d].gain = dev'[d].gain
    BY <1>2, <1>6, OpenTyped DEF PlayEx
  <2>3. stream'[d].open => idle'[d] >= unheard'[d] + Grace
    <3> SUFFICES ASSUME stream'[d].open PROVE idle'[d] >= unheard'[d] + Grace
      OBVIOUS
    <3>1. PICK latency \in Latencies : /\ idle' = [idle EXCEPT ![d] = latency + Grace]
                                       /\ unheard' = [unheard EXCEPT ![d] = latency]
      BY <1>6 DEF PlayEx, Deadline
    <3> QED
      BY <1>1, <3>1
  <2> QED
    BY <2>1, <2>2, <2>3
<1>7. CASE SetVolume(d)
  <2>1. at' = at /\ at[d] = "live" /\ idle' = idle /\ unheard' = unheard
    BY <1>7 DEF SetVolume, Called, timing
  <2>2. PICK gain \in Gains :
          /\ dev' = [dev EXCEPT ![d].gain = gain]
          /\ stream' = IF stream[d].open THEN [stream EXCEPT ![d].gain = gain] ELSE stream
    BY <1>7, Zenon DEF SetVolume
  <2>3. stream'[d].open => stream[d].open /\ stream'[d].gain = dev'[d].gain
    BY <1>1, <2>2 DEF StreamType, DeviceType
  <2> QED
    BY <2>1, <2>3
<1>8. CASE Close(d)
  <2>1. at' = at /\ at[d] = "live" /\ ~stream'[d].open
    BY <1>1, <1>8 DEF Close, Called, Ended, NoStream
  <2> QED
    BY <2>1
<1> QED
  BY <1>3, <1>4, <1>5, <1>6, <1>7, <1>8

\* And so do the steps of the channel and of the closing thread: a stream is closed by
\* them, and none is opened.
LEMMA ThreadKept ==
  ASSUME Grace \in Nat, Typed, NEW d \in Devices, DeviceKept(d),
         \/ Tell(d) \/ Quit(d) \/ Join(d) \/ Closer(d) \/ TimedOut(d) \/ Spurious(d)
  PROVE  DeviceKept(d)'
<1>1. /\ at \in [Devices -> Places] /\ dev \in [Devices -> DeviceType]
      /\ stream \in [Devices -> StreamType] /\ closer \in [Devices -> CloserType]
      /\ idle \in [Devices -> Nat] /\ unheard \in [Devices -> Nat] /\ count \in Nat
  BY DEF Typed
<1>2. dev[d] \in DeviceType /\ closer[d] \in CloserType
  BY <1>1
<1> USE DEF DeviceKept
<1>3. CASE Tell(d)
  BY <1>1, <1>2, <1>3 DEF Tell, timing
<1>4. CASE Quit(d)
  <2>1. at'[d] = "join" /\ ~stream'[d].open /\ ~dev'[d].decoder /\ dev'[d].offering = dev[d].offering
    BY <1>1, <1>2, <1>4 DEF Quit, Ended, NoStream, DeviceType
  <2> QED
    BY <1>4, <2>1 DEF Quit
<1>5. CASE Join(d)
  BY <1>1, <1>2, <1>5 DEF Join, timing
<1>6. CASE Closer(d)
  <2>1. UNCHANGED <<at, dev, timing>>
    BY <1>6 DEF Closer
  <2>2. stream'[d] = stream[d] \/ ~stream'[d].open
    BY <1>1, <1>6 DEF Closer, NoStream
  <2>3. at[d] # "freed"
    BY <1>6 DEF Closer
  <2> QED
    BY <2>1, <2>2, <2>3 DEF timing
<1>7. CASE TimedOut(d) \/ Spurious(d)
  <2>1. UNCHANGED <<at, dev, stream, timing>> /\ at[d] # "freed"
    BY <1>7 DEF TimedOut, Spurious
  <2> QED
    BY <2>1 DEF timing
<1> QED
  BY <1>3, <1>4, <1>5, <1>6, <1>7

\* The clock brings a deadline and what it was set for nearer together.
LEMMA TickKept ==
  ASSUME Grace \in Nat, Typed, NEW d \in Devices, DeviceKept(d), Tick
  PROVE  DeviceKept(d)'
<1>1. idle[d] \in Nat /\ unheard[d] \in Nat /\ closer[d] \in CloserType
  BY DEF Typed
<1>2. UNCHANGED <<at, dev, stream>>
  BY DEF Tick
<1>3. idle'[d] = Less(idle[d]) /\ unheard'[d] = Less(unheard[d])
  BY DEF Tick
<1>4. closer'[d].at = closer[d].at
  BY <1>1 DEF Tick, CloserType
<1>5. (unheard[d] > 0 => idle[d] >= unheard[d] + Grace)
        => (unheard'[d] > 0 => idle'[d] >= unheard'[d] + Grace)
  BY <1>1, <1>3 DEF Less
<1> QED
  BY <1>2, <1>4, <1>5 DEF DeviceKept

\* The count is that of the channels that offer sound, and the switch is there only
\* with one of them or until one that stopped has said so.
LEMMA SwitchedKept ==
  ASSUME IsFiniteSet(Devices), Typed, Kept, Switched, NEW d \in Devices,
         Typed', SameButFor(d),
         \/ Entry(d) \/ ServerFormatAnnounce(d) \/ Open(d) \/ PlayEx(d)
         \/ SetVolume(d) \/ Close(d) \/ Free(d)
         \/ Tell(d) \/ Quit(d) \/ Join(d) \/ Closer(d) \/ TimedOut(d) \/ Spurious(d)
  PROVE  Switched'
<1>1. /\ at \in [Devices -> Places] /\ dev \in [Devices -> DeviceType] /\ count \in Nat
      /\ dev[d] \in DeviceType
  BY DEF Typed
<1>2. \A e \in Devices \ {d} : dev'[e] = dev[e] /\ at'[e] = at[e]
  BY DEF SameButFor
<1>3. CASE Offering(d)
  <2>1. dev'[d].offering /\ at'[d] = "offer"
    BY <1>1, <1>3 DEF Offering, Tells, DeviceType
  <2>2. Offered' = Offered \cup {d}
    BY <1>2, <2>1 DEF Offered
  <2>3. dev[d].offering <=> d \in Offered
    BY DEF Offered
  <2>4. Offered \subseteq Devices
    BY DEF Offered
  <2>5. Cardinality(Offered \cup {d}) = IF d \in Offered THEN Cardinality(Offered)
                                            ELSE Cardinality(Offered) + 1
    <3>1. d \in Offered => Offered \cup {d} = Offered
      OBVIOUS
    <3> QED
      BY <2>4, <3>1, Counted
  <2>6. count' = Cardinality(Offered') /\ count' > 0
    <3>1. count' = Cardinality(Offered')
      BY <1>3, <2>2, <2>3, <2>5 DEF Offering, Switched
    <3>2. CASE dev[d].offering
      <4>1. d \in Offered
        BY <3>2, <2>3
      <4>2. Cardinality(Offered) # 0
        BY <4>1, <2>4, Counted
      <4> QED
        BY <3>1, <3>2, <4>2, <1>1, <1>3 DEF Offering, Switched
    <3>3. CASE ~dev[d].offering
      BY <3>1, <3>3, <1>1, <1>3 DEF Offering
    <3> QED
      BY <3>1, <3>2, <3>3
  <2> QED
    BY <2>6 DEF Switched
<1>4. ASSUME NEW t \in {"withdraw", "leaving"}, NEW u \in {"live", "free"},
             at[d] = "live", StopOffering(d, t, u), switch' = switch
      PROVE  Switched'
  <2>1. CASE dev[d].offering
    <3>1. ~dev'[d].offering /\ count' = count - 1
      BY <1>1, <1>4, <2>1 DEF StopOffering, DeviceType
    <3>2. at'[d] = IF count = 1 THEN t ELSE u
      BY <1>1, <1>4, <2>1 DEF StopOffering, Tells
    <3>3. Offered' = Offered \ {d} /\ d \in Offered /\ Offered \subseteq Devices
      BY <1>2, <2>1, <3>1 DEF Offered
    <3>4. Cardinality(Offered \ {d}) = Cardinality(Offered) - 1
      BY <3>3, Counted
    <3>5. count' = Cardinality(Offered')
      BY <3>1, <3>3, <3>4 DEF Switched
    <3>6. count' \in Nat
      BY DEF Typed
    <3>7. count' > 0 \/ at'[d] \in {"withdraw", "leaving"}
      BY <1>1, <3>1, <3>2, <3>6
    <3> QED
      BY <3>5, <3>7 DEF Switched
  <2>2. CASE ~dev[d].offering
    <3>1. dev' = dev /\ count' = count /\ at[d] = "live"
      BY <1>4, <2>2 DEF StopOffering, offers
    <3> QED
      BY <1>2, <1>4, <3>1 DEF Switched, Offered
  <2> QED
    BY <2>1, <2>2
<1>5. CASE Tell(d)
  <2>1. dev' = dev /\ count' = count
    BY <1>5 DEF Tell, offers
  <2>2. Offered' = Offered
    BY <2>1 DEF Offered
  <2>3. switch' => at[d] = "offer"
    BY <1>5 DEF Tell
  <2>4. at[d] = "offer" => d \in Offered
    BY DEF Kept, Offered
  <2>5. d \in Offered => count > 0
    <3>1. Offered \subseteq Devices
      BY DEF Offered
    <3> QED
      BY <1>1, <3>1, Counted DEF Switched
  <2> QED
    BY <2>1, <2>2, <2>3, <2>4, <2>5 DEF Switched
<1>6. CASE /\ dev'[d].offering = dev[d].offering /\ count' = count /\ switch' = switch
           /\ at'[d] = at[d] \/ at[d] \notin {"withdraw", "leaving"}
  <2>1. Offered' = Offered
    BY <1>2, <1>6 DEF Offered
  <2> QED
    BY <1>2, <1>6, <2>1 DEF Switched
<1>7. CASE Entry(d) /\ ~Offering(d)
  BY <1>6, <1>7 DEF Entry, Called, offers
<1>8. CASE Open(d) \/ PlayEx(d)
  <2>1. at' = at /\ count' = count /\ switch' = switch
    BY <1>8, Zenon DEF Open, PlayEx, offers
  <2>2. dev' = dev \/ \E fields \in DeviceType : fields.offering = dev[d].offering /\ OpenLocked(d, fields)
    <3>1. CASE PlayEx(d)
      BY <1>1, <3>1 DEF PlayEx
    <3>2. ASSUME NEW decoded \in BOOLEAN, NEW decoder \in BOOLEAN,
                 OpenLocked(d, [dev[d] EXCEPT !.opened = TRUE, !.failed = decoded /\ ~decoder,
                                              !.decoder = decoder])
          PROVE  \E fields \in DeviceType : fields.offering = dev[d].offering /\ OpenLocked(d, fields)
      <4> DEFINE f == [dev[d] EXCEPT !.opened = TRUE, !.failed = decoded /\ ~decoder,
                                     !.decoder = decoder]
      <4>1. f \in DeviceType /\ f.offering = dev[d].offering
        BY <1>1, Zenon DEF DeviceType
      <4> QED
        BY <3>2, <4>1, Zenon
    <3> QED
      BY <1>8, <3>1, <3>2, Zenon DEF Open
  <2>3. dev'[d].offering = dev[d].offering
    <3>1. CASE dev' = dev
      BY <3>1
    <3>2. CASE dev' # dev
      <4>1. PICK fields \in DeviceType : fields.offering = dev[d].offering /\ OpenLocked(d, fields)
        BY <2>2, <3>2, Zenon
      <4> QED
        BY <4>1, OpenTyped
    <3> QED
      BY <3>1, <3>2
  <2> QED
    BY <1>6, <2>1, <2>3
<1>9. CASE SetVolume(d) \/ Close(d) \/ Quit(d)
  <2>1. /\ count' = count /\ switch' = switch
        /\ at'[d] = at[d] \/ at[d] = "free"
    BY <1>9, Zenon DEF SetVolume, Close, Quit, offers
  <2>2. dev'[d].offering = dev[d].offering
    <3>1. CASE SetVolume(d)
      BY <1>1, <3>1 DEF SetVolume, DeviceType
    <3>2. ASSUME NEW opened, Ended(d, opened) PROVE dev'[d].offering = dev[d].offering
      BY <1>1, <3>2 DEF Ended, DeviceType
    <3> QED
      BY <1>9, <3>1, <3>2, Zenon DEF Close, Quit
  <2> QED
    BY <1>6, <2>1, <2>2
<1>10. CASE Join(d) \/ Closer(d) \/ TimedOut(d) \/ Spurious(d)
  BY <1>6, <1>10 DEF Join, Closer, TimedOut, Spurious, offers
<1>11. CASE ServerFormatAnnounce(d) \/ Free(d)
  BY <1>3, <1>4, <1>11 DEF ServerFormatAnnounce, Free, Called
<1> QED
  BY <1>3, <1>5, <1>7, <1>8, <1>9, <1>10, <1>11

\* Where two channels never told of the switch at once, the one that tells says what the
\* count came to, and with none telling the switch is as the count has it.
LEMMA UncrossedKept ==
  ASSUME Typed, Kept, Uncrossed, NEW d \in Devices, dev[d].offering => count > 0,
         Typed', SameButFor(d),
         \/ Entry(d) \/ ServerFormatAnnounce(d) \/ Open(d) \/ PlayEx(d)
         \/ SetVolume(d) \/ Close(d) \/ Free(d)
         \/ Tell(d) \/ Quit(d) \/ Join(d) \/ Closer(d) \/ TimedOut(d) \/ Spurious(d)
  PROVE  Uncrossed'
<1>1. /\ at \in [Devices -> Places] /\ count \in Nat /\ count' \in Nat
      /\ \A e \in Devices \ {d} : at'[e] = at[e]
  BY DEF Typed, SameButFor
<1>2. crossed \in BOOLEAN
  BY DEF Uncrossed
<1>3. ASSUME NEW t \in Telling, Tells(d, t), switch' = switch, at[d] \notin Telling,
             IF t = "offer" THEN count' > 0 ELSE count' = 0
      PROVE  Uncrossed'
  <2>1. at'[d] = t /\ crossed' \in BOOLEAN
    BY <1>1, <1>2, <1>3 DEF Tells
  <2>2. ~crossed' => \A e \in Devices \ {d} : at'[e] \notin Telling
    BY <1>1, <1>3 DEF Tells
  <2> QED
    BY <1>3, <2>1, <2>2 DEF Uncrossed, SwitchTells, Telling
<1>4. ASSUME crossed' = crossed, switch' = switch, at'[d] \notin Telling, at[d] \notin Telling,
             count' = count \/ (count > 0 /\ count' > 0)
      PROVE  Uncrossed'
  BY <1>1, <1>4 DEF Uncrossed, SwitchTells, Telling
<1>5. CASE Tell(d)
  <2>1. /\ at[d] \in Telling /\ at'[d] \notin Telling /\ count' = count /\ crossed' = crossed
        /\ switch' <=> at[d] = "offer"
    BY <1>1, <1>5 DEF Tell, Telling, offers
  <2>2. at[d] = "offer" => count > 0
    BY DEF Kept
  <2> QED
    BY <1>1, <2>1, <2>2 DEF Uncrossed, SwitchTells, Telling
<1>6. CASE Offering(d) /\ (Entry(d) \/ ServerFormatAnnounce(d))
  <2>1. switch' = switch /\ at[d] \notin Telling
    BY <1>6 DEF Entry, ServerFormatAnnounce, Called, Telling
  <2>2. count' > 0
    BY <1>1, <1>6 DEF Offering
  <2> QED
    BY <1>3, <1>6, <2>1, <2>2 DEF Offering, Telling
<1>7. ASSUME NEW t \in {"withdraw", "leaving"}, NEW u \in {"live", "free"},
             StopOffering(d, t, u), at[d] = "live", switch' = switch
      PROVE  Uncrossed'
  <2>1. CASE dev[d].offering /\ count = 1
    <3>1. Tells(d, t) /\ count' = 0
      BY <1>7, <2>1 DEF StopOffering
    <3> QED
      BY <1>3, <1>7, <3>1 DEF Telling
  <2>2. CASE ~(dev[d].offering /\ count = 1)
    <3>1. /\ at' = [at EXCEPT ![d] = u] /\ crossed' = crossed
          /\ count' = count \/ (count > 0 /\ count' = count - 1 /\ count # 1)
      BY <1>7, <2>2 DEF StopOffering, offers
    <3>2. at'[d] \notin Telling /\ at[d] \notin Telling
      BY <1>1, <1>7, <3>1 DEF Telling
    <3>3. count' = count \/ (count > 0 /\ count' > 0)
      BY <1>1, <3>1
    <3> QED
      BY <1>4, <1>7, <3>1, <3>2, <3>3
  <2> QED
    BY <2>1, <2>2
<1>8. CASE ServerFormatAnnounce(d) \/ Free(d)
  BY <1>6, <1>7, <1>8 DEF ServerFormatAnnounce, Free, Called
<1>9. CASE Entry(d) /\ ~Offering(d)
  <2>1. /\ at[d] = "none" /\ at' = [at EXCEPT ![d] = "freed"]
        /\ UNCHANGED <<count, crossed, switch>>
    BY <1>9 DEF Entry, Called, offers
  <2> QED
    BY <1>1, <1>4, <2>1 DEF Telling
<1>10. CASE Quit(d) \/ Join(d)
  <2>1. /\ at[d] \in {"free", "join"} /\ at'[d] \in {"join", "freed"}
        /\ UNCHANGED <<count, crossed, switch>>
    BY <1>1, <1>10 DEF Quit, Join, offers
  <2> QED
    BY <1>4, <2>1 DEF Telling
<1>11. CASE \/ Open(d) \/ PlayEx(d) \/ SetVolume(d) \/ Close(d)
            \/ Closer(d) \/ TimedOut(d) \/ Spurious(d)
  <2>1. UNCHANGED <<at, count, crossed, switch>>
    BY <1>11, Zenon DEF Open, PlayEx, SetVolume, Close, Closer, TimedOut, Spurious, offers
  <2> QED
    BY <2>1 DEF Uncrossed, SwitchTells
<1> QED
  BY <1>5, <1>6, <1>8, <1>9, <1>10, <1>11

\* Every step of the sound keeps the invariant.
LEMMA NextSound ==
  ASSUME IsFiniteSet(Devices), Grace \in Nat, Latencies \subseteq Nat, 1 \in Gains,
         IInv, [Next]_vars
  PROVE  IInv'
<1> DEFINE Calling(d) ==
             \/ Entry(d) \/ ServerFormatAnnounce(d) \/ Open(d) \/ PlayEx(d)
             \/ SetVolume(d) \/ Close(d) \/ Free(d)
           Running(d) ==
             \/ Tell(d) \/ Quit(d) \/ Join(d) \/ Closer(d) \/ TimedOut(d) \/ Spurious(d)
<1>1. Typed /\ Kept /\ Switched /\ \A d \in Devices : DeviceKept(d)
  BY DEF IInv, Timely, InVolume, Kept, DeviceKept
<1>2. (\A d \in Devices : DeviceKept(d)') => Timely' /\ InVolume' /\ Kept'
  BY DEF Timely, InVolume, Kept, DeviceKept
<1>3. CASE UNCHANGED vars
  BY <1>3
  DEF IInv, vars, Typed, Timely, InVolume, Kept, Switched, Offered, Uncrossed, SwitchTells
<1>4. CASE Tick
  <2>1. Typed'
    BY <1>1, <1>4, TickTyped
  <2>2. \A d \in Devices : DeviceKept(d)'
    BY <1>1, <1>4, TickKept
  <2>3. Switched'
    BY <1>1, <1>4 DEF Tick, Switched, Offered, offers
  <2>4. Uncrossed'
    BY <1>4 DEF Tick, IInv, Uncrossed, SwitchTells, offers
  <2> QED
    BY <1>2, <2>1, <2>2, <2>3, <2>4 DEF IInv
<1>5. ASSUME NEW d \in Devices, Calling(d) \/ Running(d)
      PROVE  IInv'
  <2>1. dev[d].offering => count > 0
    <3>1. Offered \subseteq Devices
      BY DEF Offered
    <3>2. dev[d].offering => d \in Offered
      BY DEF Offered
    <3> QED
      BY <1>1, <3>1, <3>2, Counted DEF Typed, Switched
  <2>2. Typed' /\ SameButFor(d)
    BY <1>1, <1>5, <2>1, CallTyped, ThreadTyped
  <2>3. DeviceKept(d)'
    BY <1>1, <1>5, CallKept, ThreadKept, Zenon
  <2>4. \A e \in Devices \ {d} : DeviceKept(e)'
    BY <1>1, <2>2 DEF SameButFor, DeviceKept
  <2>5. Switched'
    BY <1>1, <1>5, <2>2, SwitchedKept
  <2>6. Uncrossed'
    BY <1>5, <2>1, <2>2, UncrossedKept DEF IInv
  <2> QED
    BY <1>2, <2>2, <2>3, <2>4, <2>5, <2>6 DEF IInv
<1> QED
  BY <1>3, <1>4, <1>5 DEF Next, Channel, Closing

\* With the invariant, a device that was freed has nothing left, and both leave no switch.
LEMMA IInvSilent ==
  ASSUME IsFiniteSet(Devices), IInv PROVE NothingPlays
<1>1. \A d \in Devices : at[d] = "freed" =>
        closer[d].at = "done" /\ ~stream[d].open /\ ~dev[d].decoder /\ ~dev[d].offering
  BY DEF IInv, Kept
<1>2. (\A d \in Devices : at[d] = "freed") => count = 0 /\ ~switch
  <2> SUFFICES ASSUME \A d \in Devices : at[d] = "freed" PROVE count = 0 /\ ~switch
    OBVIOUS
  <2>1. Offered = {}
    BY <1>1 DEF Offered
  <2>2. count = 0
    BY <2>1, Counted DEF IInv, Switched
  <2> QED
    BY <2>2 DEF IInv, Switched
<1> QED
  BY <1>1, <1>2 DEF NothingPlays

\* A stream that ends by no call of its channel was closed by the closing thread, past
\* its deadline, so with nothing unheard.
LEMMA ClosedHeard ==
  ASSUME Grace \in Nat, IInv, [Next]_vars, NEW d \in Devices,
         stream[d].open, ~stream'[d].open, UNCHANGED <<at, calls>>
  PROVE  unheard[d] = 0
<1>1. /\ stream \in [Devices -> StreamType] /\ idle[d] \in Nat /\ unheard[d] \in Nat
      /\ at \in [Devices -> Places]
  BY DEF IInv, Typed
<1>2. stream' # stream /\ at' = at /\ calls' = calls
  OBVIOUS
<1>3. CASE UNCHANGED vars \/ Tick
  BY <1>2, <1>3 DEF vars, Tick
<1>4. ASSUME NEW e \in Devices, Closer(e) PROVE unheard[d] = 0
  <2>1. stream' = [stream EXCEPT ![e] = NoStream] /\ (stream[e].open => idle[e] = 0)
    BY <1>2, <1>4 DEF Closer
  <2>2. idle[d] = 0
    BY <1>1, <2>1
  <2> QED
    BY <1>1, <2>2 DEF IInv, Timely
<1>5. ASSUME NEW e \in Devices, TimedOut(e) \/ Spurious(e) \/ Tell(e) \/ Join(e) PROVE FALSE
  BY <1>2, <1>5 DEF TimedOut, Spurious, Tell, Join
<1>6. ASSUME NEW e \in Devices, Quit(e) PROVE FALSE
  <2>1. at[e] = "free" /\ at'[e] = "join"
    BY <1>1, <1>6 DEF Quit
  <2> QED
    BY <1>2, <2>1
<1>7. ASSUME NEW e \in Devices, Free(e) PROVE FALSE
  BY <1>2, <1>7 DEF Free
<1>8. ASSUME NEW e \in Devices,
             \/ Entry(e) \/ ServerFormatAnnounce(e) \/ Open(e) \/ PlayEx(e) \/ SetVolume(e)
             \/ Close(e)
      PROVE  FALSE
  <2>1. calls < MaxCalls /\ calls' = calls + 1
    BY <1>8, Zenon DEF Entry, ServerFormatAnnounce, Open, PlayEx, SetVolume, Close, Called
  <2> QED
    BY <1>2, <2>1
<1> QED
  BY <1>3, <1>4, <1>5, <1>6, <1>7, <1>8 DEF Next, Channel, Closing

\* The closing thread ends no stream before its samples are heard, a stream has the server's
\* volume, the switch is what the channels told that never crossed, and freed devices leave
\* nothing behind.
THEOREM IInvHolds ==
  ASSUME IsFiniteSet(Devices), Grace \in Nat, Latencies \subseteq Nat, 1 \in Gains
  PROVE  Spec => NotCutShort /\ [](InVolume /\ SwitchTells /\ NothingPlays)
<1>1. IInv => InVolume /\ SwitchTells /\ NothingPlays
  BY IInvSilent DEF IInv, Uncrossed
<1>2. IInv /\ [Next]_vars =>
        [\A d \in Devices :
           stream[d].open /\ ~stream'[d].open /\ UNCHANGED <<at, calls>> => unheard[d] = 0]_vars
  BY ClosedHeard
<1> QED
  BY InitSound, NextSound, <1>1, <1>2, PTL DEF Spec, NotCutShort
=============================================================================
