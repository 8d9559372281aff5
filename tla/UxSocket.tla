------------------------------ MODULE UxSocket ------------------------------
(***************************************************************************)
(* The daemon's command socket: the listener thread (multipathd/uxlsnr.c), *)
(* the parsing of commands (multipathd/cli.c, uxsock_trigger()), replies   *)
(* of growing length (multipathd/cli_handlers.c, show_...), the packets    *)
(* (libmpathcmd, libmultipath/uxsock.c) and the client (multipathd -k,     *)
(* multipathd/uxclnt.c).                                                   *)
(*                                                                         *)
(* A packet is its length and its text, which arrive one after the other.  *)
(* Lengths are in units; a command is a sequence of words.                 *)
(***************************************************************************)
EXTENDS Integers, Sequences, FiniteSets, SequencesExt

CONSTANTS
  UxClients,       \* client processes
  Commands,        \* the commands they send: [words, len, show]; show is the
                   \* length of what there is to show, 0 for other commands
  Abbrev,          \* [word -> keywords that it is a proper prefix of]
  Root,            \* the clients that run as root
  InitialReplyLen, MaxReplyLen, MaxCmdLen,
  MaxReconfigs     \* bound: changes of the configuration

ASSUME UxConstants ==
  /\ IsFiniteSet(UxClients)
  /\ \A cmd \in Commands : cmd.show \in Nat
  /\ InitialReplyLen \in Nat \ {0} /\ MaxReplyLen \in Nat

VARIABLES
  ux_cl,           \* clients: [pc, cmd]; pc "off", "connecting", "open", "half"
                   \* (length sent), "wait"
  ux_fd,           \* [client -> its connection's file descriptor, 0 for none]
  ux_in, ux_out,   \* packets on the way, by file descriptor
  ux_list,         \* clients of the listener, as file descriptors
  ux_polls,        \* the file descriptors that ppoll() returned
  ux_pc,           \* "poll", "loop", "recv", "accept"
  ux_dstate,       \* "configure" or "idle": the daemon's state
  ux_conf          \* the reconfigurations so far
ux_vars == <<ux_cl, ux_fd, ux_in, ux_out, ux_list, ux_polls, ux_pc, ux_dstate,
             ux_conf>>

Fds == 1..Cardinality(UxClients)
Off == [pc |-> "off", cmd |-> 0]
SocketInit ==
  /\ ux_cl = [c \in UxClients |-> Off]
  /\ ux_fd = [c \in UxClients |-> 0]
  /\ ux_in = [f \in Fds |-> <<>>] /\ ux_out = [f \in Fds |-> <<>>]
  /\ ux_list = <<>> /\ ux_polls = <<>>
  /\ ux_pc = "poll" /\ ux_dstate = "idle"
  /\ ux_conf = 0

(************************** keywords and handlers **************************)
\* load_keys(): the keywords in the order of the table, with their codes.
load_keys ==
  << <<"list", "LIST">>, <<"show", "LIST">>, <<"add", "ADD">>, <<"remove", "DEL">>,
     <<"del", "DEL">>, <<"switch", "SWITCH">>, <<"switchgroup", "SWITCH">>,
     <<"suspend", "SUSPEND">>, <<"resume", "RESUME">>, <<"reinstate", "REINSTATE">>,
     <<"fail", "FAIL">>, <<"resize", "RESIZE">>, <<"reset", "RESET">>,
     <<"reload", "RELOAD">>, <<"forcequeueing", "FORCEQ">>,
     <<"disablequeueing", "DISABLEQ">>, <<"restorequeueing", "RESTOREQ">>,
     <<"paths", "PATHS">>, <<"maps", "MAPS">>, <<"multipaths", "MAPS">>,
     <<"path", "PATH">>, <<"map", "MAP">>, <<"multipath", "MAP">>, <<"group", "GROUP">>,
     <<"reconfigure", "RECONFIGURE">>, <<"daemon", "DAEMON">>, <<"status", "STATUS">>,
     <<"stats", "STATS">>, <<"topology", "TOPOLOGY">>, <<"config", "CONFIG">>,
     <<"blacklist", "BLACKLIST">>, <<"devices", "DEVICES">>, <<"raw", "RAW">>,
     <<"wildcards", "WILDCARDS">>, <<"quit", "QUIT">>, <<"exit", "QUIT">>,
     <<"shutdown", "SHUTDOWN">>, <<"getprstatus", "GETPRSTATUS">>,
     <<"setprstatus", "SETPRSTATUS">>, <<"unsetprstatus", "UNSETPRSTATUS">>,
     <<"format", "FMT">>, <<"json", "JSON">>, <<"getprkey", "GETPRKEY">>,
     <<"setprkey", "SETPRKEY">>, <<"unsetprkey", "UNSETPRKEY">>, <<"key", "KEY">>,
     <<"local", "LOCAL">>, <<"setmarginal", "SETMARGINAL">>,
     <<"unsetmarginal", "UNSETMARGINAL">> >>
HasParam == {"PATH", "MAP", "GROUP", "FMT", "KEY"}
\* cli_init() and the callbacks that uxlsnrloop() sets. A fingerprint is the
\* sum of the codes: here the set, as no command names a keyword twice.
Listed == {{"PATHS"}, {"PATHS", "FMT"}, {"PATHS", "RAW", "FMT"}, {"PATH"}, {"STATUS"},
  {"DAEMON"}, {"MAPS"}, {"MAPS", "STATUS"}, {"MAPS", "STATS"}, {"MAPS", "FMT"},
  {"MAPS", "RAW", "FMT"}, {"MAPS", "TOPOLOGY"}, {"MAPS", "JSON"}, {"TOPOLOGY"},
  {"MAP", "TOPOLOGY"}, {"MAP", "JSON"}, {"MAP", "FMT"}, {"MAP", "RAW", "FMT"},
  {"CONFIG"}, {"CONFIG", "LOCAL"}, {"BLACKLIST"}, {"DEVICES"}, {"WILDCARDS"}}
OfMap == {"ADD", "DEL", "SUSPEND", "RESUME", "RESIZE", "RESET", "RELOAD", "DISABLEQ",
  "RESTOREQ", "GETPRSTATUS", "SETPRSTATUS", "UNSETPRSTATUS", "GETPRKEY",
  "UNSETPRKEY", "UNSETMARGINAL"}
OfPath == {"ADD", "DEL", "REINSTATE", "FAIL", "SETMARGINAL", "UNSETMARGINAL"}
Unlocked == {{"LIST", "DAEMON"}, {"RECONFIGURE"}, {"QUIT"}, {"SHUTDOWN"}}
handlers ==
  {{"LIST"} \cup s : s \in Listed} \cup {{k, "MAP"} : k \in OfMap}
  \cup {{k, "PATH"} : k \in OfPath} \cup {{k, "MAPS"} : k \in {"DEL", "DISABLEQ", "RESTOREQ"}}
  \cup {{k, "DAEMON"} : k \in {"FORCEQ", "RESTOREQ"}}
  \cup {{"RESET", "MAPS", "STATS"}, {"RESET", "MAP", "STATS"},
        {"SWITCH", "MAP", "GROUP"}, {"SETPRKEY", "MAP", "KEY"}} \cup Unlocked

\* The word itself or the only keyword it abbreviates, "" for none. Two longer
\* keywords before the word in the table would hide it.
find_key(w) ==
  LET hits == SelectSeq(load_keys, LAMBDA k : k[1] = w \/ (w \in DOMAIN Abbrev /\ k[1] \in Abbrev[w]))
      at == {i \in DOMAIN hits : hits[i][1] = w}
  IN  IF at # {} /\ \A i \in at : i <= 2 THEN w
      ELSE IF at = {} /\ Len(hits) = 1 THEN hits[1][1] ELSE ""
CodeOf(w) == (CHOOSE k \in Range(load_keys) : k[1] = w)[2]
\* get_cmdvec(): the codes of the words that are not the parameter of the one
\* before, or why there are none.
IsParam(ws, i) == i > 1 /\ find_key(ws[i - 1]) # "" /\ CodeOf(find_key(ws[i - 1])) \in HasParam
get_cmdvec(ws) ==
  LET keys == {i \in DOMAIN ws : ~IsParam(ws, i)}
  IN  IF \E i \in keys : find_key(ws[i]) = "" THEN "not found"
      ELSE IF ws # <<>> /\ Len(ws) \in keys /\ CodeOf(find_key(ws[Len(ws)])) \in HasParam
      THEN "missing argument" ELSE "ok"
fingerprint(ws) == {CodeOf(find_key(ws[i])) : i \in {i \in DOMAIN ws : ~IsParam(ws, i)}}

\* The show_...() functions: the buffer is doubled until the text fits; "fail" if
\* it does not fit before the limit is reached. 0 stands for that.
show_reply(n) ==
  LET reply[maxlen \in Nat] ==
        IF n < maxlen - 1 THEN n + 1
        ELSE IF maxlen >= MaxReplyLen THEN 0 ELSE reply[2 * maxlen]
  IN  reply[InitialReplyLen]

\* uxsock_trigger() and parse_cmd(). got: timedlock() got vecs->lock. The
\* reply is for the command cmd; the handlers are in the other modules.
Reply(cmd, text, len) == [cmd |-> cmd, text |-> text, len |-> len]
genhelp_handler(cmd) == Reply(cmd, "help", 2)
uxsock_trigger(cmd, root, got) ==
  LET ws == cmd.words
      vec == get_cmdvec(ws)
  IN  IF ~root /\ (ws = <<>> \/ ws[1] \notin {"list", "show"})
      THEN Reply(cmd, "permission deny", 2)
      ELSE IF vec # "ok" \/ fingerprint(ws) \notin handlers THEN genhelp_handler(cmd)
      ELSE IF fingerprint(ws) \notin Unlocked /\ ~got THEN Reply(cmd, "timeout", 1)
      ELSE IF cmd.show = 0 THEN Reply(cmd, "ok", 1)
      ELSE IF show_reply(cmd.show) = 0 THEN Reply(cmd, "fail", 1)
      ELSE Reply(cmd, "shown", show_reply(cmd.show))
\* Computed once for the commands of the model.
Replies ==
  [cmd \in Commands |->
     [root \in BOOLEAN |-> [got \in BOOLEAN |-> uxsock_trigger(cmd, root, got)]]]

(****************************** the listener *******************************)
dead_client(f) ==
  /\ ux_list' = RemoveAt(ux_list, CHOOSE i \in DOMAIN ux_list : ux_list[i] = f)
  /\ ux_in' = [ux_in EXCEPT ![f] = <<>>]
  /\ ux_fd' = [c \in UxClients |-> IF ux_fd[c] = f THEN 0 ELSE ux_fd[c]]
Owner(f) == {c \in UxClients : ux_fd[c] = f}
Closed(f) == f \in Range(ux_list) /\ Owner(f) = {}
Connecting == {c \in UxClients : ux_cl[c].pc = "connecting"}

\* The head of the loop of uxsock_listen(), up to the wait for the end of a
\* reconfiguration; that goes on for 10 ms only.
UxPoll ==
  /\ ux_pc = "poll"
  /\ LET ready == SelectSeq(ux_list, LAMBDA f : ux_in[f] # <<>> \/ Closed(f))
     IN  /\ ready # <<>> \/ Connecting # {}
         /\ IF ux_dstate = "configure" THEN UNCHANGED <<ux_polls, ux_pc>>
            ELSE ux_polls' = ready /\ ux_pc' = "loop"
  /\ UNCHANGED <<ux_cl, ux_fd, ux_in, ux_out, ux_list, ux_dstate, ux_conf>>
UxNextClient ==
  /\ ux_pc = "loop" /\ ux_polls # <<>>
  /\ ux_pc' = IF Head(ux_polls) \in Range(ux_list) THEN "recv" ELSE "loop"
  /\ ux_polls' = IF ux_pc' = "recv" THEN ux_polls ELSE Tail(ux_polls)
  /\ UNCHANGED <<ux_cl, ux_fd, ux_in, ux_out, ux_list, ux_dstate, ux_conf>>
\* recv_packet_from_client(): the length, then the text.
Received(f) == Len(ux_in[f]) >= 2
BadLength(f) == ux_in[f] # <<>> /\ (ux_in[f][1] <= 0 \/ ux_in[f][1] > MaxCmdLen)
UxRecv(got) ==
  LET f == Head(ux_polls)
      cmd == ux_in[f][2]
      c == CHOOSE c \in Owner(f) : TRUE
  IN  /\ ux_pc = "recv" /\ Received(f) /\ ~BadLength(f)
      /\ IF Closed(f) THEN dead_client(f) /\ UNCHANGED ux_out
         ELSE /\ ux_in' = [ux_in EXCEPT ![f] = SubSeq(@, 3, Len(@))]
              /\ ux_out' = [ux_out EXCEPT ![f] =
                              Append(@, Replies[cmd][(c \in Root)][got])]
              /\ UNCHANGED <<ux_list, ux_fd>>
      /\ ux_pc' = "loop" /\ ux_polls' = Tail(ux_polls)
      /\ UNCHANGED <<ux_cl, ux_dstate, ux_conf>>
\* A packet of a bad length is dropped, and the client kept (mutant).
UxRecvFails_Keeps ==
  LET f == Head(ux_polls)
  IN  /\ ux_pc = "recv" /\ (~Received(f) \/ BadLength(f))
      /\ IF Received(f)
         THEN ux_in' = [ux_in EXCEPT ![f] = SubSeq(@, 3, Len(@))] /\ UNCHANGED <<ux_fd, ux_list>>
         ELSE dead_client(f)
      /\ ux_pc' = "loop" /\ ux_polls' = Tail(ux_polls)
      /\ UNCHANGED <<ux_cl, ux_out, ux_dstate, ux_conf>>
\* The time-out of read_all(), the end of the stream, or a bad length.
UxRecvFails ==
  LET f == Head(ux_polls)
  IN  /\ ux_pc = "recv" /\ (~Received(f) \/ BadLength(f))
      /\ dead_client(f)
      /\ ux_pc' = "loop" /\ ux_polls' = Tail(ux_polls)
      /\ UNCHANGED <<ux_cl, ux_out, ux_dstate, ux_conf>>
\* new_client() at the end of the loop: accept() takes the lowest free number.
UxAccept ==
  LET used == Range(ux_list)
      f == CHOOSE f \in Fds : f \notin used /\ \A g \in Fds \ used : f <= g
  IN  /\ ux_pc = "loop" /\ ux_polls = <<>>
      /\ ux_pc' = "poll"
      /\ IF Connecting = {} \/ Fds = used
         THEN UNCHANGED <<ux_cl, ux_fd, ux_in, ux_out, ux_list>>
         ELSE \E c \in Connecting :
                /\ ux_cl' = [ux_cl EXCEPT ![c].pc = "open"]
                /\ ux_fd' = [ux_fd EXCEPT ![c] = f]
                /\ ux_list' = Append(ux_list, f)
                /\ ux_in' = [ux_in EXCEPT ![f] = <<>>]
                /\ ux_out' = [ux_out EXCEPT ![f] = <<>>]
      /\ UNCHANGED <<ux_polls, ux_dstate, ux_conf>>

(******************************* the clients *******************************)
Client(c, pc, cmd) == ux_cl' = [ux_cl EXCEPT ![c] = [pc |-> pc, cmd |-> cmd]]
mpath_connect(c) ==
  /\ ux_cl[c].pc = "off"
  /\ Client(c, "connecting", 0)
  /\ UNCHANGED <<ux_fd, ux_in, ux_out, ux_list, ux_polls, ux_pc, ux_dstate, ux_conf>>
\* send_packet(): a connection that the daemon has closed gives an error.
SendLength(c, cmd) ==
  /\ ux_cl[c].pc = "open" /\ ux_fd[c] # 0
  /\ Client(c, "half", cmd)
  /\ ux_in' = [ux_in EXCEPT ![ux_fd[c]] = Append(@, cmd.len)]
  /\ UNCHANGED <<ux_fd, ux_out, ux_list, ux_polls, ux_pc, ux_dstate, ux_conf>>
SendText(c) ==
  /\ ux_cl[c].pc = "half" /\ ux_fd[c] # 0
  /\ Client(c, "wait", ux_cl[c].cmd)
  /\ ux_in' = [ux_in EXCEPT ![ux_fd[c]] = Append(@, ux_cl[c].cmd)]
  /\ UNCHANGED <<ux_fd, ux_out, ux_list, ux_polls, ux_pc, ux_dstate, ux_conf>>
\* recv_packet(): the interactive client asks for the next command, another
\* one ends. A length that mpath_recv_reply_len() does not accept is an error.
RecvReply(c) ==
  LET f == ux_fd[c] IN
  /\ ux_cl[c].pc = "wait" /\ f # 0 /\ ux_out[f] # <<>>
  /\ ux_out' = [ux_out EXCEPT ![f] = Tail(@)]
  /\ IF Head(ux_out[f]).len \in 1..(MaxReplyLen - 1)
     THEN Client(c, "open", 0) /\ UNCHANGED ux_fd
     ELSE Client(c, "off", 0) /\ ux_fd' = [ux_fd EXCEPT ![c] = 0]
  /\ UNCHANGED <<ux_in, ux_list, ux_polls, ux_pc, ux_dstate, ux_conf>>
\* A client whose wait for a reply has timed out goes on with its connection
\* (mutant).
Disconnect_Stays(c) ==
  /\ ux_cl[c].pc \notin {"off", "connecting"}
  /\ IF ux_cl[c].pc = "wait" /\ ux_fd[c] # 0 THEN Client(c, "open", 0) /\ UNCHANGED ux_fd
     ELSE Client(c, "off", 0) /\ ux_fd' = [ux_fd EXCEPT ![c] = 0]
  /\ UNCHANGED <<ux_in, ux_out, ux_list, ux_polls, ux_pc, ux_dstate, ux_conf>>
\* The end of uxclnt(): after a reply, after a time-out and if the connection
\* is gone.
Disconnect(c) ==
  /\ ux_cl[c].pc \notin {"off", "connecting"}
  /\ Client(c, "off", 0)
  /\ ux_fd' = [ux_fd EXCEPT ![c] = 0]
  /\ UNCHANGED <<ux_in, ux_out, ux_list, ux_polls, ux_pc, ux_dstate, ux_conf>>
ConnectionGone(c) == ux_fd[c] = 0 /\ Disconnect(c)

(*************************** the configuration *****************************)
UxConfigure ==
  /\ \/ /\ ux_dstate = "idle" /\ ux_conf < MaxReconfigs
        /\ ux_dstate' = "configure"
        /\ ux_conf' = ux_conf + 1
     \/ ux_dstate = "configure" /\ ux_dstate' = "idle" /\ UNCHANGED ux_conf
  /\ UNCHANGED <<ux_cl, ux_fd, ux_in, ux_out, ux_list, ux_polls, ux_pc>>
ConfigureDone == ux_dstate = "configure" /\ UxConfigure

Listener == UxPoll \/ UxNextClient \/ UxRecv(TRUE) \/ UxRecv(FALSE) \/ UxRecvFails \/ UxAccept
UxNext ==
  \/ Listener \/ UxConfigure
  \/ \E c \in UxClients :
       \/ mpath_connect(c) \/ SendText(c) \/ RecvReply(c) \/ Disconnect(c)
       \/ \E cmd \in Commands : SendLength(c, cmd)
\* The listener runs, a reconfiguration ends, and who waits for a reply takes
\* it. A client may be stopped before it has sent all of its command.
ClientSteps(c) == RecvReply(c) \/ ConnectionGone(c)
UxFair ==
  /\ WF_ux_vars(Listener) /\ WF_ux_vars(ConfigureDone)
  /\ \A c \in UxClients : WF_ux_vars(ClientSteps(c))
UxSpec == SocketInit /\ [][UxNext]_ux_vars /\ UxFair

(****************************** properties *********************************)
(***************************************************************************)
(* The reply that a client gets is complete and the one for the command it *)
(* waits for, although clients give up waiting, connections are closed     *)
(* with requests unread and their file descriptors are used again.         *)
(***************************************************************************)
RepliesMatch ==
  \A c \in UxClients : ux_cl[c].pc = "wait" /\ ux_fd[c] # 0 /\ ux_out[ux_fd[c]] # <<>> =>
    LET r == Head(ux_out[ux_fd[c]])
    IN  /\ r.cmd = ux_cl[c].cmd
        /\ r.text = "shown" => r.len = r.cmd.show + 1

(***************************************************************************)
(* A client that has sent its command gets a reply or is disconnected: one *)
(* that sends half a packet or none only costs the others a time-out, and  *)
(* a reconfiguration only delays the replies.                              *)
(***************************************************************************)
ClientsServed == \A c \in UxClients : ux_cl[c].pc = "wait" ~> ux_cl[c].pc # "wait"
=============================================================================
