----------------------------- MODULE Listeners ------------------------------
(***************************************************************************)
(* The listening sockets (ClientMsgListener::Listen over                   *)
(* build_tcp_listener, build_udp_listener and release_socket).             *)
(*                                                                         *)
(* Listen tries a port: it builds a TCP and a UDP listener, and if only    *)
(* one of them could be built it releases that one and tries another port. *)
(* A family of addresses comes after the other.  Each listener that was    *)
(* built has a thread of its own, which knows its socket only by number;   *)
(* Windows gives the number of a closed socket to the next one.  The UDP   *)
(* thread first looks up the addresses of the computer, so that its socket *)
(* may long be released when it comes to receive.  When receiving fails,   *)
(* for whatever reason, it closes the socket and gives back a use of       *)
(* Winsock, although release_socket may have done both.  Winsock counts    *)
(* its uses in the process and closes every socket when the last is given  *)
(* back.  (The thread of a released TCP listener goes on calling accept,   *)
(* which fails each time.)                                                 *)
(***************************************************************************)
EXTENDS Integers, FiniteSets

CONSTANTS
    Tries,      \* 2*MAX_TRY_TIMES: ports tried for a family
    Numbers,    \* numbers a socket can have
    MaxUses     \* bound of the model: uses of Winsock counted

ASSUME ListenAssumption ==
    /\ Tries \in Nat \ {0}
    /\ MaxUses \in Nat

VARIABLES
    stage,      \* what Listen does next: the family, the try and the step
    member,     \* v4TcpSock, v4UdpSock, v6TcpSock, v6UdpSock
    socks,      \* the listener each number stands for
    uses,       \* Winsock's count of WSAStartup less WSACleanup
    threads,    \* UDP threads: the number each knows and what it does next
    hasListen,  \* ClientMsgListener::hasListen
    won         \* history: the try of each family that was taken, 0 if none

listenVars == <<stage, member, socks, uses, threads, hasListen, won>>

Families == {"v4", "v6"}
Kinds == {"tcp", "udp"}
Attempts == Families \X (1 .. Tries)
Listener == Kinds \X Families \X (1 .. Tries)

NoSocket == "SOCKET_ERROR"
Closed == <<"none", "none", 0>>
Done == [family |-> "none", try |-> 0, step |-> "done"]

ListenersTypeOK ==
    /\ stage \in [family: Families, try: 1 .. Tries, step: {"tcp", "udp", "judge"}]
                     \union {Done}
    /\ member \in [Kinds \X Families -> Numbers \union {NoSocket}]
    /\ socks \in [Numbers -> Listener \union {Closed}]
    /\ uses \in 0 .. MaxUses
    /\ threads \in [Attempts -> [number: Numbers \union {NoSocket},
                                 step: {"none", "lookup", "receive", "fail", "over"}]]
    /\ hasListen \in BOOLEAN
    /\ won \in [Families -> 0 .. Tries]

ListenersInit ==
    /\ stage = [family |-> "v4", try |-> 1, step |-> "tcp"]
    /\ member = [k \in Kinds \X Families |-> NoSocket]
    /\ socks = [n \in Numbers |-> Closed]
    /\ uses = 0
    /\ threads = [a \in Attempts |-> [number |-> NoSocket, step |-> "none"]]
    /\ hasListen = FALSE
    /\ won = [f \in Families |-> 0]

-----------------------------------------------------------------------------
(* Winsock *)

\* The sockets after closesocket(n).
Without(n) == [socks EXCEPT ![n] = Closed]

\* WSACleanup when the sockets are S: the last one closes all of them, and
\* one too many fails.
Cleanup(S) ==
    /\ uses' = IF uses = 0 THEN 0 ELSE uses - 1
    /\ socks' = IF uses <= 1 THEN [n \in Numbers |-> Closed] ELSE S

-----------------------------------------------------------------------------
(* The thread of Listen *)

Attempt == <<stage.family, stage.try>>

\* The listener is built under a number that is free.
Built(kind) ==
    /\ uses < MaxUses
    /\ uses' = uses + 1
    /\ \E n \in Numbers :
           /\ socks[n] = Closed
           /\ socks' = [socks EXCEPT ![n] = <<kind, stage.family, stage.try>>]
           /\ member' = [member EXCEPT ![<<kind, stage.family>>] = n]

\* The port is taken; or there is no address, and then the use is kept.
NotBuilt(kind) ==
    /\ uses' \in {uses, uses + 1}
    /\ uses' <= MaxUses
    /\ socks' = socks
    /\ member' = [member EXCEPT ![<<kind, stage.family>>] = NoSocket]

BuildTcp ==
    /\ stage.step = "tcp"
    /\ Built("tcp") \/ NotBuilt("tcp")
    /\ stage' = [stage EXCEPT !.step = "udp"]
    /\ UNCHANGED <<threads, hasListen, won>>

BuildUdp ==
    /\ stage.step = "udp"
    /\ \/ /\ Built("udp")
          /\ threads' = [threads EXCEPT ![Attempt] =
                             [number |-> member'[<<"udp", stage.family>>],
                              step |-> "lookup"]]
       \/ /\ NotBuilt("udp")
          /\ UNCHANGED threads
    /\ stage' = [stage EXCEPT !.step = "judge"]
    /\ UNCHANGED <<hasListen, won>>

NextFamily ==
    IF stage.family = "v4" THEN [family |-> "v6", try |-> 1, step |-> "tcp"] ELSE Done

\* Variant: one try too many.
NextTryTooFar ==
    IF stage.try <= Tries
    THEN [stage EXCEPT !.try = @ + 1, !.step = "tcp"]
    ELSE NextFamily

NextTry ==
    IF stage.try < Tries
    THEN [stage EXCEPT !.try = @ + 1, !.step = "tcp"]
    ELSE NextFamily

Tcp == member[<<"tcp", stage.family>>]
Udp == member[<<"udp", stage.family>>]

\* Both were built: the port is taken.
TakePort ==
    /\ stage.step = "judge"
    /\ Tcp # NoSocket
    /\ Udp # NoSocket
    /\ hasListen' = TRUE
    /\ won' = [won EXCEPT ![stage.family] = stage.try]
    /\ stage' = NextFamily
    /\ UNCHANGED <<member, socks, uses, threads>>

\* Variant: both are released, also the one that was not built.
ReleaseBoth ==
    /\ stage.step = "judge"
    /\ NoSocket \in {Tcp, Udp}
    /\ {Tcp, Udp} # {NoSocket}
    /\ uses' = IF uses < 2 THEN 0 ELSE uses - 2
    /\ socks' = [n \in Numbers |-> IF uses' = 0 \/ n \in {Tcp, Udp} THEN Closed ELSE socks[n]]
    /\ stage' = NextTry
    /\ UNCHANGED <<member, threads, hasListen, won>>

\* One was built: release_socket closes it and gives its use back; the
\* number stays in the member.
ReleaseOne ==
    /\ stage.step = "judge"
    /\ \E n \in {Tcp, Udp} \ {NoSocket} :
           /\ {Tcp, Udp} = {n, NoSocket}
           /\ Cleanup(Without(n))
    /\ stage' = NextTry
    /\ UNCHANGED <<member, threads, hasListen, won>>

NoneBuilt ==
    /\ stage.step = "judge"
    /\ Tcp = NoSocket
    /\ Udp = NoSocket
    /\ stage' = NextTry
    /\ UNCHANGED <<member, socks, uses, threads, hasListen, won>>

-----------------------------------------------------------------------------
(* udp_listen_thread *)

\* get_local_ip uses Winsock and gives the use back, unless it fails.
LookUp(a) ==
    /\ threads[a].step = "lookup"
    /\ uses' \in {uses, uses + 1}
    /\ uses' <= MaxUses
    /\ threads' = [threads EXCEPT ![a].step = "receive"]
    /\ UNCHANGED <<stage, member, socks, hasListen, won>>

\* recvfrom fails, and the thread leaves its loop: the number may stand for no
\* UDP socket any more, and one that is open fails for a datagram that is
\* longer than BUFFER_SIZE, among other errors.  (It may also receive what is
\* for a socket that got the number later.)
Fail(a) ==
    /\ threads[a].step = "receive"
    /\ threads' = [threads EXCEPT ![a].step = "fail"]
    /\ UNCHANGED <<stage, member, socks, uses, hasListen, won>>

\* The thread closes the number it knows and gives a use back.
CloseAgain(a) ==
    /\ threads[a].step = "fail"
    /\ Cleanup(Without(threads[a].number))
    /\ threads' = [threads EXCEPT ![a].step = "over"]
    /\ UNCHANGED <<stage, member, hasListen, won>>

-----------------------------------------------------------------------------

ListenStep == BuildTcp \/ BuildUdp \/ TakePort \/ ReleaseOne \/ NoneBuilt
UdpThread(a) == LookUp(a) \/ Fail(a) \/ CloseAgain(a)

ListenersNext == ListenStep \/ \E a \in Attempts : UdpThread(a)

ListenersSpec == ListenersInit /\ [][ListenersNext]_listenVars

-----------------------------------------------------------------------------
(* Properties *)

\* The listeners that Listen took for the family are open, apart from a UDP
\* listener whose own thread has ended.
Listens(f) ==
    \A k \in Kinds : \/ socks[member[<<k, f>>]] = <<k, f, won[f]>>
                     \/ k = "udp" /\ threads[<<f, won[f]>>].step = "over"

\* A port whose UDP half was built and released: its thread closes a socket
\* later.
HalfBuilt(a) ==
    /\ threads[a].step # "none"
    /\ won[a[1]] # a[2]
    /\ ~(stage.step = "judge" /\ Attempt = a)

\* ClientMsgListener::Listen: once it has taken a port for a family, both
\* listeners of the family stay open, whatever fails for other ports and
\* for the other family, unless the UDP half of another port was built and
\* released.  Receiving may fail at any time: the thread then closes its own
\* UDP listener, and gives back its own use of Winsock, and no other's.
PortsStayOpen ==
    (\E a \in Attempts : HalfBuilt(a)) \/ \A f \in Families : won[f] # 0 => Listens(f)

\* What ClientMsgListener.h:36 promises: if a port is taken, Listen changes
\* to another by itself.
OtherPortWorks == \A f \in Families : won[f] # 0 => Listens(f)

=============================================================================
