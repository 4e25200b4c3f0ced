---------------------------- MODULE BorderRouter -----------------------------
(***************************************************************************)
(* The border router between its two networks: how it gets its prefix and  *)
(* switches its radio on (border-router.c), the SLIP line to the host that *)
(* packets, configuration messages and debug output share (slip-bridge.c), *)
(* and the web server behind it (Httpd).                                   *)
(*                                                                         *)
(* The program at the other end of the line, tunslip6, is external.  It    *)
(* answers a '?P'; it hands packets to the host's IP stack, which routes   *)
(* those for the prefix back to the line; and it outlives the router, so   *)
(* that a booting router may find an earlier answer on the line.           *)
(***************************************************************************)
EXTENDS Httpd

CONSTANTS
    Motes,      \* motes that send packets for which the router has no route
    Host,       \* the verifier, and whoever else sits behind the tunnel
    Nobody      \* a source address that is no node's

ASSUME SourcesAssumption == {Host, Nobody} \cap Motes = {} /\ Host # Nobody

VARIABLES
    boot,         \* border_router_process, the radio, and the RPL DAG
    wire,         \* is a '?P', is a '!P' on the line?
    last_sender,  \* what the bridge took for the source of the last packet on the line
    uip_src,      \* the source field of uip_buf, whatever uip_buf holds
    tunnel,       \* motes with a packet in the tunnel, that may come back
    debug_frame,  \* is a debug line open?
    seen          \* what happened: see the properties

bvars == <<boot, wire, last_sender, uip_src, tunnel, debug_frame, seen>>
vars == <<hvars, bvars>>

-----------------------------------------------------------------------------
(* slip-bridge.c *)

\* putchar, of text or of a newline.
putchar(frame, c) == c # "nl"

\* What printf's loop leaves: of all its characters the last one decides.
printed(chars) == putchar(debug_frame, Last(chars))

printf(chars) == debug_frame' = printed(chars)

\* slip_send: the frame is torn when it is sent within a debug line.
slip_send(s) == [s EXCEPT !.torn = @ \/ debug_frame]

\* Mutant: packets that go out are remembered, too.
output_Saves(src) ==
    /\ seen' = IF last_sender = src THEN [seen EXCEPT !.filtered = @ \cup {src}]
                                    ELSE slip_send(seen)
    /\ tunnel' = IF last_sender = src THEN tunnel ELSE tunnel \cup {src}
    /\ last_sender' = src

\* output, of a packet of a mote that came in by radio.
output(src) ==
    /\ seen' = IF last_sender = src THEN [seen EXCEPT !.filtered = @ \cup {src}]
                                    ELSE slip_send(seen)
    /\ tunnel' = IF last_sender = src THEN tunnel ELSE tunnel \cup {src}
    /\ UNCHANGED last_sender

\* slip_input_callback, for a packet of src.
slip_input_callback(src) == last_sender' = src

\* ... for a message.  uip_clear_buf() resets lengths only: the source field of
\* uip_buf, which is copied all the same, holds bytes of the message, or else
\* what was there before.  s is what else is noted of the message.
slip_input_message(sources, s) ==
    \E src \in sources :
        /\ last_sender' = src /\ uip_src' = src
        /\ seen' = [s EXCEPT !.left = @ \cup ({src} \cap Motes)]

-----------------------------------------------------------------------------
(* border-router.c *)

\* Mutant: the request is not repeated.
request_prefix_Once == wire' = [wire EXCEPT !.ask = @ \/ boot.pc = "paused"]

request_prefix == wire' = [wire EXCEPT !.ask = TRUE]

\* Mutant: the radio is switched on after the first second.
prefix_wait_Short(b) == b.pc = "paused" /\ ~b.prefix_set

\* Does the loop that waits for the prefix go on?
prefix_wait(b) == ~b.prefix_set

\* The process goes on after its pause, or when et has expired.
PrefixLoop ==
    /\ boot.pc # "running"
    /\ IF prefix_wait(boot)
       THEN /\ boot' = [boot EXCEPT !.pc = "asking"]
            /\ request_prefix
            /\ seen' = slip_send(seen)
            /\ UNCHANGED debug_frame
       ELSE /\ boot' = [boot EXCEPT !.pc = "running", !.radio = TRUE]
            /\ printf(<<"text", "nl", "text", "text", "nl">>)
            /\ UNCHANGED <<wire, seen>>
    /\ UNCHANGED <<last_sender, uip_src, tunnel, hvars>>

\* A '!P' arrives, maybe the late answer to a request that was repeated:
\* set_prefix_64.  rpl_set_root drops the DAG there was and makes a new one, or
\* returns NULL when it has none left; prefix_set is 1 by then.  The message ends
\* with the first two bytes of the source field, which its last two may equal.
SetPrefix ==
    /\ wire.answer
    /\ wire' = [wire EXCEPT !.answer = FALSE]
    /\ \E dag \in BOOLEAN :
          /\ boot' = [boot EXCEPT !.prefix_set = TRUE, !.root = dag]
          /\ slip_input_message({Nobody, uip_src}, [seen EXCEPT !.refused = @ \/ ~dag])
    /\ printf(<<"text", "nl", "text", "text", "nl">>)
    /\ UNCHANGED <<tunnel, hvars>>

\* A '?M' arrives, and is answered: the answer covers the source field.
MacRequest ==
    /\ slip_input_message({Nobody}, [seen EXCEPT !.torn = @ \/ printed(<<"text", "nl">>)])
    /\ printf(<<"text", "nl">>)
    /\ UNCHANGED <<boot, wire, tunnel, hvars>>

\* A message of any other type, short or long, is reported and ignored.
OtherMessage ==
    /\ slip_input_message({Nobody, uip_src}, seen)
    /\ printf(<<"text", "nl">>)
    /\ UNCHANGED <<boot, wire, tunnel, hvars>>

\* Mutant: the newline after a topology's checksum is left out.
udp_checksum_callback_Open == {<<"text", "text", "nl", "text">>, <<"text", "nl", "text", "nl">>}

\* What udp_checksum_callback prints for a topology and for an attestation.
udp_checksum_callback == {<<"text", "text", "nl", "text", "nl">>, <<"text", "nl", "text", "nl">>}

\* A report comes in by radio.
Report ==
    /\ boot.pc = "running"
    /\ uip_src' \in Motes \cup {Nobody}
    /\ \E chars \in udp_checksum_callback : printf(chars)
    /\ UNCHANGED <<boot, wire, last_sender, tunnel, seen, hvars>>

\* A request of the verifier comes in over the line; before verifier_conn is
\* bound the stack refuses it.  tcpip_handler, and
\* multicast_send for a first round; the rest is in Swarm and SecondRound.
Request ==
    /\ boot.pc = "running"
    /\ slip_input_callback(Host)
    /\ uip_src' \in {Host, Nobody}
    /\ \E chars \in {<<"text", "nl">>, <<"text", "nl", "text", "text", "text", "nl">>,
                     <<"text", "nl", "nl", "text", "nl">>} : printf(chars)
    /\ UNCHANGED <<boot, wire, tunnel, seen, hvars>>

-----------------------------------------------------------------------------
(* The two networks *)

\* A packet of a mote that the router has no route for.
FromMote(m) ==
    /\ boot.radio
    /\ output(m)
    /\ uip_src' = m
    /\ UNCHANGED <<boot, wire, debug_frame, hvars>>

\* A packet comes over the line: the host's, or one of a mote that the host
\* routes back.  It is forwarded by radio, or, when there is no route, gets to
\* output in the same event, which drops it.
FromTunnel(src) ==
    /\ src \in tunnel \cup {Host}
    /\ slip_input_callback(src)
    /\ uip_src' = src
    /\ seen' = [seen EXCEPT !.returned = @ \cup ({src} \cap Motes)]
    /\ tunnel' = tunnel \ {src}
    /\ UNCHANGED <<boot, wire, debug_frame, hvars>>

HostAnswers ==
    /\ wire.ask
    /\ wire' = [ask |-> FALSE, answer |-> TRUE]
    /\ UNCHANGED <<boot, last_sender, uip_src, tunnel, debug_frame, seen, hvars>>

\* Whatever is on the line or in the tunnel may be lost.
Lose ==
    /\ \/ \E w \in {"ask", "answer"} : wire' = [wire EXCEPT ![w] = FALSE] /\ UNCHANGED tunnel
       \/ \E m \in tunnel : tunnel' = tunnel \ {m} /\ UNCHANGED wire
    /\ UNCHANGED <<boot, last_sender, uip_src, debug_frame, seen, hvars>>

\* A timer of RPL or of the neighbour discovery: the router sends a packet of its
\* own by radio.
OwnPacket ==
    /\ boot.radio
    /\ uip_src' = Nobody
    /\ UNCHANGED <<boot, wire, last_sender, tunnel, debug_frame, seen, hvars>>

\* A segment of a peer of the web server.  The router has an address once the
\* prefix is set; the radio may still be off.
FromPeer(c) ==
    /\ boot.prefix_set
    /\ Connected(c) \/ NewData(c) \/ Acked(c) \/ Ended(c) \/ EndedAgain(c)
    /\ slip_input_callback(Host)
    /\ uip_src' \in {Host, Nobody}
    /\ seen' = slip_send(seen)
    /\ UNCHANGED <<boot, wire, tunnel, debug_frame>>

\* The stack's timers: it sends a segment again, polls, gives up, or drops; and
\* those of the web server.
StackTimer ==
    /\ \/ \E c \in Connections : Rexmit(c) /\ seen' = slip_send(seen)
       \/ \E c \in Connections : (Poll(c) \/ (conn[c].unacked /\ Ended(c)) \/ Dropped(c)) /\ UNCHANGED seen
       \/ \E b \in Blocks : TimerRuns(b) /\ UNCHANGED seen
    /\ uip_src' \in {uip_src, Nobody}
    /\ UNCHANGED <<boot, wire, last_sender, tunnel, debug_frame>>

-----------------------------------------------------------------------------
Init ==
    /\ HInit
    /\ boot = [pc |-> "paused", prefix_set |-> FALSE, radio |-> FALSE, root |-> FALSE]
    /\ wire \in [ask : {FALSE}, answer : BOOLEAN]
    /\ last_sender = Nobody /\ uip_src = Nobody
    /\ tunnel \in SUBSET Motes
    /\ debug_frame = FALSE
    /\ seen = [torn |-> FALSE, refused |-> FALSE, filtered |-> {}, returned |-> {}, left |-> {}]

Next ==
    \/ PrefixLoop \/ SetPrefix \/ MacRequest \/ OtherMessage \/ Report \/ Request
    \/ HostAnswers \/ Lose \/ OwnPacket
    \/ \E m \in Motes : FromMote(m)
    \/ \E src \in Motes \cup {Host} : FromTunnel(src)
    \/ \E c \in Connections : FromPeer(c)
    \/ StackTimer

Spec == Init /\ [][Next]_vars

\* The process gets the CPU, a request that is repeated is answered some time,
\* and so is one of the answers; the stack serves the web server (HFairness).
FairSpec ==
    /\ Spec /\ HFairness
    /\ WF_vars(PrefixLoop) /\ SF_vars(HostAnswers) /\ SF_vars(SetPrefix)

-----------------------------------------------------------------------------
\* The radio stays off until the router is the root of a DAG, so that it never
\* joins one as a child (border_router_process: "Prevent that by turning the
\* radio off until we are initialized as a DAG root") - but for a '!P' to which
\* rpl_set_root has answered NULL: that sets the prefix and leaves no root.
RadioAfterRoot == boot.radio => boot.root \/ seen.refused

\* The filter of output drops nothing but packets of a mote that had one come
\* back from the tunnel, or whose address a message found in uip_buf.
SlipFilter == seen.filtered \subseteq seen.returned \cup seen.left

\* No frame is sent within a debug line, whatever handler printed last and
\* whoever sends next: the process, the bridge, or the web server.
FramesWhole == ~seen.torn

\* The router comes up, though requests and answers get lost.
Boots == boot.pc # "running" ~> boot.pc = "running"
=============================================================================
