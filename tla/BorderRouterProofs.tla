------------------------- MODULE BorderRouterProofs --------------------------
(***************************************************************************)
(* What TLAPS proves of BorderRouter.tla, for any motes and any page: the  *)
(* web server behind the line is the one of Httpd, the radio is only on at *)
(* the root of a DAG, the filter of the SLIP bridge does what it is for,   *)
(* and no frame is torn by a debug line.                                   *)
(***************************************************************************)
EXTENDS BorderRouter, HttpdProofs

-----------------------------------------------------------------------------
(* The web server in the router *)

LEMMA ServerStep == [Next]_vars => [HNext]_hvars
<1> SUFFICES ASSUME [Next]_vars PROVE [HNext]_hvars
  OBVIOUS
<1>1. CASE \/ PrefixLoop \/ SetPrefix \/ MacRequest \/ OtherMessage \/ Report \/ Request
           \/ HostAnswers \/ Lose \/ OwnPacket
  BY <1>1 DEF PrefixLoop, SetPrefix, MacRequest, OtherMessage, Report, Request, HostAnswers,
              Lose, OwnPacket
<1>2. ASSUME NEW m \in Motes, FromMote(m) PROVE [HNext]_hvars
  BY <1>2 DEF FromMote
<1>3. ASSUME NEW src \in Motes \cup {Host}, FromTunnel(src) PROVE [HNext]_hvars
  BY <1>3 DEF FromTunnel
<1>4. ASSUME NEW c \in Connections, FromPeer(c) PROVE [HNext]_hvars
  BY <1>4 DEF FromPeer, HNext
<1>5. CASE StackTimer
  BY <1>5 DEF StackTimer, HNext
<1>6. CASE UNCHANGED vars
  BY <1>6 DEF vars
<1> QED
  BY <1>1, <1>2, <1>3, <1>4, <1>5, <1>6 DEF Next

\* Whatever the rest of the router does, its web server does what Httpd allows:
\* border_router_process and slip_input_callback share no state with
\* httpd_appcall, and every event of a peer or a timer is one of Httpd's.
LEMMA WebServerInside == Spec => HSpec
<1>1. Init => HInit
  BY DEF Init
<1> QED
  BY <1>1, ServerStep, PTL DEF Spec, HSpec

\* So the pool is exact and buf never overflows in the router, either.
THEOREM WebServerSafe == Spec => [](PoolExact /\ BufferFits /\ PageReceived)
  BY WebServerInside, PoolIsExact, BufferNeverOverflows, PageArrives, PTL

-----------------------------------------------------------------------------
(* The filter *)

\* Nothing is said of torn and refused.
Marks(t) == t \in [torn : {t.torn}, refused : {t.refused}, filtered : SUBSET Motes,
                   returned : SUBSET Motes, left : SUBSET Motes]

SameSets(u, t) == u.filtered = t.filtered /\ u.returned = t.returned /\ u.left = t.left

\* If last_sender is a mote, a packet of it came back from the tunnel, or a
\* message was taken for one of its packets.
FilterInv ==
    /\ Marks(seen)
    /\ last_sender \in Motes => last_sender \in seen.returned \cup seen.left
    /\ seen.filtered \subseteq seen.returned \cup seen.left

\* The assignments to the marks.
LEMMA MarkUpdate ==
    ASSUME NEW t, Marks(t), NEW x
    PROVE  /\ LET u == [t EXCEPT !.torn = x]
              IN  Marks(u) /\ SameSets(u, t) /\ u.torn = x /\ u.refused = t.refused
           /\ LET u == [t EXCEPT !.refused = x]
              IN  Marks(u) /\ SameSets(u, t) /\ u.torn = t.torn /\ u.refused = x
<1>1. LET u == [t EXCEPT !.torn = x]
      IN  /\ u \in [torn : {x}, refused : {t.refused}, filtered : SUBSET Motes,
                    returned : SUBSET Motes, left : SUBSET Motes]
          /\ SameSets(u, t) /\ u.torn = x /\ u.refused = t.refused
  BY DEF Marks, SameSets
<1>2. LET u == [t EXCEPT !.refused = x]
      IN  /\ u \in [torn : {t.torn}, refused : {x}, filtered : SUBSET Motes,
                    returned : SUBSET Motes, left : SUBSET Motes]
          /\ SameSets(u, t) /\ u.torn = t.torn /\ u.refused = x
  BY DEF Marks, SameSets
<1> QED
  BY <1>1, <1>2 DEF Marks

LEMMA SetUpdate ==
    ASSUME NEW t, Marks(t), NEW X \in SUBSET Motes
    PROVE  /\ LET u == [t EXCEPT !.filtered = X]
              IN  /\ Marks(u) /\ u.torn = t.torn /\ u.refused = t.refused
                  /\ u.filtered = X /\ u.returned = t.returned /\ u.left = t.left
           /\ LET u == [t EXCEPT !.returned = X]
              IN  /\ Marks(u) /\ u.torn = t.torn /\ u.refused = t.refused
                  /\ u.filtered = t.filtered /\ u.returned = X /\ u.left = t.left
           /\ LET u == [t EXCEPT !.left = X]
              IN  /\ Marks(u) /\ u.torn = t.torn /\ u.refused = t.refused
                  /\ u.filtered = t.filtered /\ u.returned = t.returned /\ u.left = X
  BY DEF Marks

\* Frames leave the marks alone, and last_sender is no mote after a packet of
\* the host.
LEMMA Kept ==
    ASSUME FilterInv, Marks(seen'), SameSets(seen', seen),
           last_sender' \in {last_sender, Host}
    PROVE  FilterInv'
<1>1. last_sender' \in Motes => last_sender' = last_sender
  BY SourcesAssumption
<1> QED
  BY <1>1 DEF FilterInv, Marks, SameSets

\* A frame is sent, or not.
LEMMA Sent ==
    ASSUME FilterInv, seen' = seen \/ seen' = slip_send(seen)
    PROVE  Marks(seen') /\ SameSets(seen', seen) /\ seen'.refused = seen.refused
<1>1. CASE seen' = seen
  BY <1>1 DEF FilterInv, Marks, SameSets
<1>2. CASE seen' = slip_send(seen)
  BY <1>2, MarkUpdate DEF FilterInv, slip_send
<1> QED
  BY <1>1, <1>2

\* A message whose source was found in uip_buf.
LEMMA Message ==
    ASSUME FilterInv, NEW sources, NEW s, Marks(s), SameSets(s, seen),
           slip_input_message(sources, s)
    PROVE  FilterInv' /\ seen'.torn = s.torn /\ seen'.refused = s.refused
<1>1. PICK src \in sources :
          /\ last_sender' = src
          /\ seen' = [s EXCEPT !.left = s.left \cup ({src} \cap Motes)]
  BY DEF slip_input_message
<1> DEFINE left == s.left \cup ({src} \cap Motes)
<1>2. left \in SUBSET Motes /\ seen.left \subseteq left /\ (src \in Motes => src \in left)
  BY DEF Marks, SameSets
<1> HIDE DEF left
<1>3. seen' = [s EXCEPT !.left = left]
  BY <1>1 DEF left
<1>4. /\ Marks(seen') /\ seen'.torn = s.torn /\ seen'.refused = s.refused
      /\ seen'.filtered = s.filtered /\ seen'.returned = s.returned /\ seen'.left = left
  BY <1>2, <1>3, SetUpdate
<1> QED
  BY <1>1, <1>2, <1>4 DEF FilterInv, Marks, SameSets

LEMMA InitFilter == Init => FilterInv
  BY SourcesAssumption DEF Init, FilterInv, Marks

LEMMA PrefixFilter ==
    ASSUME FilterInv, SetPrefix
    PROVE  FilterInv' /\ seen'.torn = seen.torn /\ (seen.refused => seen'.refused)
<1>1. PICK dag \in BOOLEAN :
          slip_input_message({Nobody, uip_src}, [seen EXCEPT !.refused = seen.refused \/ ~dag])
  BY DEF SetPrefix
<1> DEFINE x == seen.refused \/ ~dag
           s == [seen EXCEPT !.refused = x]
<1>2. seen.refused => x
  OBVIOUS
<1> HIDE DEF x
<1>3. Marks(s) /\ SameSets(s, seen) /\ s.torn = seen.torn /\ s.refused = x
  BY MarkUpdate DEF FilterInv
<1>4. slip_input_message({Nobody, uip_src}, s)
  BY <1>1 DEF x
<1> HIDE DEF s
<1>5. FilterInv' /\ seen'.torn = s.torn /\ seen'.refused = s.refused
  BY <1>3, <1>4, Message
<1> QED
  BY <1>2, <1>3, <1>5

LEMMA MacFilter ==
    ASSUME FilterInv, MacRequest
    PROVE  /\ FilterInv' /\ seen'.refused = seen.refused
           /\ seen'.torn = (seen.torn \/ printed(<<"text", "nl">>))
<1> DEFINE x == seen.torn \/ printed(<<"text", "nl">>)
           s == [seen EXCEPT !.torn = x]
<1>1. slip_input_message({Nobody}, s)
  BY DEF MacRequest
<1> HIDE DEF x
<1>2. Marks(s) /\ SameSets(s, seen) /\ s.torn = x /\ s.refused = seen.refused
  BY MarkUpdate DEF FilterInv
<1> HIDE DEF s
<1>3. FilterInv' /\ seen'.torn = s.torn /\ seen'.refused = s.refused
  BY <1>1, <1>2, Message
<1> QED
  BY <1>2, <1>3 DEF x

LEMMA OtherFilter ==
    ASSUME FilterInv, OtherMessage
    PROVE  FilterInv' /\ seen'.torn = seen.torn /\ seen'.refused = seen.refused
  BY Message DEF OtherMessage, FilterInv, SameSets

LEMMA MoteFilter ==
    ASSUME FilterInv, NEW m \in Motes, FromMote(m)
    PROVE  /\ FilterInv' /\ seen'.refused = seen.refused
           /\ seen'.torn = seen.torn \/ seen' = slip_send(seen)
<1>1. last_sender' = last_sender
  BY DEF FromMote, output
<1>2. CASE last_sender = m
  <2> DEFINE f == seen.filtered \cup {m}
  <2>1. seen' = [seen EXCEPT !.filtered = f]
    BY <1>2 DEF FromMote, output
  <2>2. f \in SUBSET Motes /\ f \subseteq seen.returned \cup seen.left
    BY <1>2 DEF FilterInv, Marks
  <2> HIDE DEF f
  <2>3. /\ Marks(seen') /\ seen'.torn = seen.torn /\ seen'.refused = seen.refused
        /\ seen'.filtered = f /\ seen'.returned = seen.returned /\ seen'.left = seen.left
    BY <2>1, <2>2, SetUpdate DEF FilterInv
  <2> QED
    BY <1>1, <2>2, <2>3 DEF FilterInv, Marks
<1>3. CASE last_sender # m
  <2>1. seen' = slip_send(seen)
    BY <1>3 DEF FromMote, output
  <2> QED
    BY <1>1, <2>1, Sent, Kept
<1> QED
  BY <1>2, <1>3

LEMMA TunnelFilter ==
    ASSUME FilterInv, NEW src \in Motes \cup {Host}, FromTunnel(src)
    PROVE  FilterInv' /\ seen'.torn = seen.torn /\ seen'.refused = seen.refused
<1> DEFINE r == seen.returned \cup ({src} \cap Motes)
<1>1. last_sender' = src /\ seen' = [seen EXCEPT !.returned = r]
  BY DEF FromTunnel, slip_input_callback
<1>2. r \in SUBSET Motes /\ (src \in Motes => src \in r) /\ seen.returned \subseteq r
  BY DEF FilterInv, Marks
<1> HIDE DEF r
<1>3. /\ Marks(seen') /\ seen'.torn = seen.torn /\ seen'.refused = seen.refused
      /\ seen'.filtered = seen.filtered /\ seen'.returned = r /\ seen'.left = seen.left
  BY <1>1, <1>2, SetUpdate DEF FilterInv
<1> QED
  BY <1>1, <1>2, <1>3 DEF FilterInv, Marks

\* The steps that send a frame or none, and take no packet of a mote.
LEMMA OtherSteps ==
    ASSUME FilterInv,
           \/ PrefixLoop \/ Report \/ HostAnswers \/ Lose \/ OwnPacket \/ Request \/ StackTimer
           \/ \E c \in Connections : FromPeer(c)
           \/ UNCHANGED vars
    PROVE  /\ FilterInv' /\ seen'.refused = seen.refused
           /\ seen' = seen \/ seen' = slip_send(seen)
<1>1. last_sender' \in {last_sender, Host} /\ (seen' = seen \/ seen' = slip_send(seen))
  <2>1. CASE PrefixLoop
    BY <2>1 DEF PrefixLoop
  <2>2. CASE Report \/ HostAnswers \/ Lose \/ OwnPacket
    BY <2>2 DEF Report, HostAnswers, Lose, OwnPacket
  <2>3. CASE Request
    BY <2>3 DEF Request, slip_input_callback
  <2>4. CASE StackTimer
    BY <2>4 DEF StackTimer
  <2>5. ASSUME NEW c \in Connections, FromPeer(c)
        PROVE  last_sender' \in {last_sender, Host} /\ (seen' = seen \/ seen' = slip_send(seen))
    BY <2>5 DEF FromPeer, slip_input_callback
  <2>6. CASE UNCHANGED vars
    BY <2>6 DEF vars, bvars
  <2> QED
    BY <2>1, <2>2, <2>3, <2>4, <2>5, <2>6
<1> QED
  BY <1>1, Sent, Kept

\* The marks of refused answers stay, too.
LEMMA StepFilter ==
    FilterInv /\ [Next]_vars => FilterInv' /\ (seen.refused => seen'.refused)
<1> SUFFICES ASSUME FilterInv, [Next]_vars PROVE FilterInv' /\ (seen.refused => seen'.refused)
  OBVIOUS
<1>1. ASSUME NEW m \in Motes, FromMote(m) PROVE FilterInv' /\ (seen.refused => seen'.refused)
  BY <1>1, MoteFilter
<1>2. ASSUME NEW src \in Motes \cup {Host}, FromTunnel(src)
      PROVE  FilterInv' /\ (seen.refused => seen'.refused)
  BY <1>2, TunnelFilter
<1> QED
  BY <1>1, <1>2, PrefixFilter, MacFilter, OtherFilter, OtherSteps DEF Next

\* last_sender keeps every packet that came over the line from going back, and
\* output only drops packets of motes that had one come back, or whose address
\* slip_input_callback found in uip_buf, however packets, configuration messages
\* of every type, and packets of the router's own take turns.
THEOREM FilterWorks == Spec => []SlipFilter
<1>1. FilterInv => SlipFilter
  BY DEF FilterInv, SlipFilter
<1> QED
  BY <1>1, InitFilter, StepFilter, PTL DEF Spec

-----------------------------------------------------------------------------
(* The radio *)

\* Once the prefix is set there is a root (set_prefix_64), or rpl_set_root failed;
\* and the prefix comes before the radio.
BootInv ==
    /\ boot.radio => boot.prefix_set
    /\ boot.prefix_set => boot.root \/ seen.refused

BootStates == [pc : {"paused", "asking", "running"}, prefix_set : BOOLEAN,
               radio : BOOLEAN, root : BOOLEAN]

LEMMA InitBoot == Init => boot \in BootStates /\ BootInv
  BY DEF Init, BootStates, BootInv

LEMMA BootSame ==
    ASSUME boot \in BootStates, BootInv, boot' = boot, seen.refused => seen'.refused
    PROVE  boot' \in BootStates /\ BootInv'
  BY DEF BootInv

LEMMA PrefixBoot ==
    ASSUME FilterInv, boot \in BootStates, BootInv, SetPrefix
    PROVE  boot' \in BootStates /\ BootInv'
<1>1. PICK dag \in BOOLEAN :
          /\ boot' = [boot EXCEPT !.prefix_set = TRUE, !.root = dag]
          /\ slip_input_message({Nobody, uip_src}, [seen EXCEPT !.refused = seen.refused \/ ~dag])
  BY DEF SetPrefix
<1> DEFINE x == seen.refused \/ ~dag
           s == [seen EXCEPT !.refused = x]
<1>2. ~dag => x
  OBVIOUS
<1> HIDE DEF x
<1>3. Marks(s) /\ SameSets(s, seen) /\ s.refused = x
  BY MarkUpdate DEF FilterInv
<1>4. slip_input_message({Nobody, uip_src}, s)
  BY <1>1 DEF x
<1> HIDE DEF s
<1>5. seen'.refused = x
  BY <1>3, <1>4, Message
<1>6. boot' \in BootStates /\ boot'.prefix_set /\ boot'.root = dag
  BY <1>1 DEF BootStates
<1> QED
  BY <1>2, <1>5, <1>6 DEF BootInv

LEMMA StepBoot ==
    FilterInv /\ boot \in BootStates /\ BootInv /\ [Next]_vars
        => (boot \in BootStates /\ BootInv)'
<1> SUFFICES ASSUME FilterInv, boot \in BootStates, BootInv, [Next]_vars
             PROVE  boot' \in BootStates /\ BootInv'
  OBVIOUS
<1>0. seen.refused => seen'.refused
  BY StepFilter
<1>1. CASE PrefixLoop
  <2>1. CASE prefix_wait(boot)
    <3>1. boot' = [boot EXCEPT !.pc = "asking"]
      BY <1>1, <2>1 DEF PrefixLoop
    <3> QED
      BY <1>0, <3>1 DEF BootStates, BootInv
  <2>2. CASE ~prefix_wait(boot)
    <3>1. boot' = [boot EXCEPT !.pc = "running", !.radio = TRUE] /\ boot.prefix_set
      BY <1>1, <2>2 DEF PrefixLoop, prefix_wait
    <3> QED
      BY <1>0, <3>1 DEF BootStates, BootInv
  <2> QED
    BY <2>1, <2>2
<1>2. CASE SetPrefix
  BY <1>2, PrefixBoot
<1>3. ASSUME NEW m \in Motes, FromMote(m) PROVE boot' = boot
  BY <1>3 DEF FromMote
<1>4. ASSUME NEW src \in Motes \cup {Host}, FromTunnel(src) PROVE boot' = boot
  BY <1>4 DEF FromTunnel
<1>5. ASSUME NEW c \in Connections, FromPeer(c) PROVE boot' = boot
  BY <1>5 DEF FromPeer
<1>6. CASE \/ MacRequest \/ OtherMessage \/ Report \/ Request \/ HostAnswers \/ Lose
           \/ OwnPacket \/ StackTimer \/ UNCHANGED vars
  <2>1. boot' = boot
    BY <1>6 DEF MacRequest, OtherMessage, Report, Request, HostAnswers, Lose, OwnPacket,
                StackTimer, vars, bvars
  <2> QED
    BY <1>0, <2>1, BootSame
<1> QED
  BY <1>0, <1>1, <1>2, <1>3, <1>4, <1>5, <1>6, BootSame DEF Next

\* border_router_process switches the radio on past its loop, and whatever
\* requests and answers were lost, late or repeated, a prefix was set by then,
\* and with it the root of a DAG, but where rpl_set_root had returned NULL, which
\* set_prefix_64 notices only after prefix_set is 1.
THEOREM RadioOnlyAsRoot == Spec => []RadioAfterRoot
<1>1. boot \in BootStates /\ BootInv => RadioAfterRoot
  BY DEF BootInv, RadioAfterRoot
<1> QED
  BY <1>1, InitFilter, StepFilter, InitBoot, StepBoot, PTL DEF Spec

-----------------------------------------------------------------------------
(* The line *)

\* Whatever runs next, the handler before it has ended its debug line.
LineInv == ~debug_frame /\ ~seen.torn

\* Each of the texts the handlers print ends with a newline.
LEMMA LinesEnd ==
    /\ ~printed(<<"text", "nl">>)
    /\ ~printed(<<"text", "nl", "nl", "text", "nl">>)
    /\ ~printed(<<"text", "nl", "text", "text", "nl">>)
    /\ ~printed(<<"text", "nl", "text", "text", "text", "nl">>)
    /\ \A chars \in udp_checksum_callback : ~printed(chars)
  BY DEF printed, putchar, Last, udp_checksum_callback

\* A frame sent between two debug lines is whole.
LEMMA SentWhole ==
    ASSUME NEW t, Marks(t), ~t.torn, NEW x, ~x
    PROVE  ~[t EXCEPT !.torn = t.torn \/ x].torn
  BY DEF Marks

LEMMA InitLine == Init => LineInv
  BY DEF Init, LineInv

LEMMA StepLine == FilterInv /\ LineInv /\ [Next]_vars => LineInv'
<1> SUFFICES ASSUME FilterInv, LineInv, [Next]_vars PROVE LineInv'
  OBVIOUS
<1>1. ~debug_frame /\ ~seen.torn /\ Marks(seen)
  BY DEF LineInv, FilterInv
<1>2. ASSUME seen' = seen \/ seen' = slip_send(seen) PROVE ~seen'.torn
  <2>1. ~slip_send(seen).torn
    BY <1>1, SentWhole DEF slip_send
  <2> QED
    BY <1>1, <1>2, <2>1
<1>3. CASE PrefixLoop
  BY <1>1, <1>2, <1>3, LinesEnd DEF PrefixLoop, printf, LineInv
<1>4. CASE SetPrefix
  <2>1. seen'.torn = seen.torn
    BY <1>4, PrefixFilter
  <2> QED
    BY <1>1, <1>4, <2>1, LinesEnd DEF SetPrefix, printf, LineInv
<1>5. CASE MacRequest
  <2>1. ~seen'.torn
    BY <1>1, <1>5, LinesEnd, MacFilter
  <2> QED
    BY <1>5, <2>1, LinesEnd DEF MacRequest, printf, LineInv
<1>6. CASE OtherMessage
  <2>1. seen'.torn = seen.torn
    BY <1>6, OtherFilter
  <2> QED
    BY <1>1, <1>6, <2>1, LinesEnd DEF OtherMessage, printf, LineInv
<1>7. CASE Report
  BY <1>1, <1>7, LinesEnd DEF Report, printf, LineInv
<1>8. CASE Request
  BY <1>1, <1>8, LinesEnd DEF Request, printf, LineInv
<1>9. CASE HostAnswers \/ Lose \/ OwnPacket
  BY <1>1, <1>9 DEF HostAnswers, Lose, OwnPacket, LineInv
<1>10. ASSUME NEW m \in Motes, FromMote(m) PROVE LineInv'
  <2>1. debug_frame' = debug_frame
    BY <1>10 DEF FromMote
  <2>2. ~seen'.torn
    BY <1>1, <1>2, <1>10, MoteFilter
  <2> QED
    BY <1>1, <2>1, <2>2 DEF LineInv
<1>11. ASSUME NEW src \in Motes \cup {Host}, FromTunnel(src) PROVE LineInv'
  <2>1. debug_frame' = debug_frame
    BY <1>11 DEF FromTunnel
  <2>2. seen'.torn = seen.torn
    BY <1>11, TunnelFilter
  <2> QED
    BY <1>1, <2>1, <2>2 DEF LineInv
<1>12. ASSUME NEW c \in Connections, FromPeer(c) PROVE LineInv'
  BY <1>1, <1>2, <1>12 DEF FromPeer, LineInv
<1>13. CASE StackTimer
  <2>1. (seen' = seen \/ seen' = slip_send(seen)) /\ debug_frame' = debug_frame
    BY <1>13 DEF StackTimer
  <2> QED
    BY <1>1, <1>2, <2>1 DEF LineInv
<1>14. CASE UNCHANGED vars
  BY <1>1, <1>14 DEF vars, bvars, LineInv
<1> QED
  BY <1>3, <1>4, <1>5, <1>6, <1>7, <1>8, <1>9, <1>10, <1>11, <1>12, <1>13, <1>14 DEF Next

\* printf and slip_send share the line, and putchar's debug_frame outlives the
\* handler: every handler ends its debug lines before the process, the bridge
\* or the web server sends a frame.
THEOREM FramesAreWhole == Spec => []FramesWhole
<1>1. LineInv => FramesWhole
  BY DEF LineInv, FramesWhole
<1> QED
  BY <1>1, InitFilter, StepFilter, InitLine, StepLine, PTL DEF Spec
=============================================================================
