------------------------------ MODULE Startup ------------------------------
(***************************************************************************)
(* The life of the relay's process: main.c, config.c, the opening and      *)
(* closing of relay_run (relay.c), and what each part allocates and frees. *)
(* Two threads: the one that runs main, and the one in which Windows calls *)
(* console_ctrl_handler when the user asks the program to stop.            *)
(* What the loop does with datagrams is the module Relay's; here a turn    *)
(* only allocates and frees.                                               *)
(***************************************************************************)
EXTENDS DnsTable, FiniteSets

CONSTANTS Argvs,        \* command lines: sequences of words
          Upstream,     \* words that parse as an IPv4 address
          Path,         \* the other words that are no options
          Disks,        \* what files there may be: [path -> lines]
          MaxPending,   \* bound: entries of the id map
          MaxDropped    \* bound: queries that could not be sent

ASSUME DiskType == \A d \in Disks :
    /\ DOMAIN d \subseteq Path
    /\ \A p \in DOMAIN d : d[p] \in Seq(Seq(Word \cup {"#"}))

DefaultPath == "dnsrelay.txt"

VARIABLES
    pc,         \* where the main thread is
    args,       \* the rest of the command line
    disk,       \* the files that can be opened, and their lines
    cfg,        \* dns_relay_config: [upstream_ip, table_path, show_help]
    held,       \* what is allocated, per kind of resource
    table,      \* the name list
    unread,     \* what is left of its file
    pending,    \* nodes in the id map
    stop,       \* s_stop_requested
    asked,      \* a stop was asked for after relay_run cleared the flag
    dropped,    \* entries taken from the id map for queries not sent
    code        \* the exit code

vars == <<pc, args, disk, cfg, held, table, unread, pending, stop, asked, dropped, code>>

Resource == {"winsock", "socket", "map", "node", "entry", "table", "row", "file", "cache"}

none_held == [r \in Resource |-> 0]

Init ==
    /\ pc = "arguments"
    /\ args \in Argvs /\ disk \in Disks
    /\ cfg = [upstream_ip |-> "default", table_path |-> DefaultPath, show_help |-> FALSE]
    /\ held = none_held
    /\ table = dns_table_create /\ unread = <<>> /\ pending = 0
    /\ stop = FALSE /\ asked = FALSE /\ dropped = 0
    /\ code = 0

take(r) == [held EXCEPT ![r] = @ + 1]

\* free of every resource in a set; the rows go with their table and the
\* nodes with their map.
without(h, rs) ==
    [r \in Resource |->
        IF r = "row" /\ "table" \in rs THEN h[r] - Cardinality(entries(table))
        ELSE IF r = "node" /\ "map" \in rs THEN h[r] - pending
        ELSE IF r \in rs THEN h[r] - 1 ELSE h[r]]

free(rs) == held' = without(held, rs)

exit(c) == pc' = "exited" /\ code' = c

\* relay_run returns: what it had is freed.
run_returns(c, rs) == pc' = "returned" /\ code' = c /\ free(rs)

(***************************************************************************)
(* main, up to relay_run.                                                  *)
(***************************************************************************)
dnsrelay_parse_ipv4(arg) == arg \in Upstream

\* A turn of the loop of config_parse.
ParseArgument ==
    /\ pc = "arguments" /\ args # <<>>
    /\ LET arg == Head(args)
       IN  \/ arg \in {"-d", "-dd"} /\ UNCHANGED <<cfg, pc, code>>
           \/ /\ arg \in {"-h", "--help"}
              /\ cfg' = [cfg EXCEPT !.show_help = TRUE] /\ UNCHANGED <<pc, code>>
           \/ /\ dnsrelay_parse_ipv4(arg)
              /\ cfg' = [cfg EXCEPT !.upstream_ip = arg] /\ UNCHANGED <<pc, code>>
           \/ arg \in Path /\ cfg' = [cfg EXCEPT !.table_path = arg]
                           /\ UNCHANGED <<pc, code>>
           \/ /\ arg \notin {"-d", "-dd", "-h", "--help"} \cup Upstream \cup Path
              /\ exit(1) /\ UNCHANGED cfg
    /\ args' = Tail(args)
    /\ UNCHANGED <<held, table, unread, pending, stop, asked, dropped>>

ArgumentsParsed ==
    /\ pc = "arguments" /\ args = <<>>
    /\ IF cfg.show_help THEN exit(0) ELSE pc' = "platform" /\ UNCHANGED code
    /\ UNCHANGED <<args, cfg, held, table, unread, pending, stop, asked, dropped>>

\* platform_init: WSAStartup may fail.
PlatformInit ==
    /\ pc = "platform"
    /\ \/ pc' = "handler" /\ held' = take("winsock") /\ UNCHANGED code
       \/ exit(1) /\ UNCHANGED held
    /\ UNCHANGED <<args, cfg, table, unread, pending, stop, asked, dropped>>

InstallHandler ==
    /\ pc = "handler"
    /\ pc' = "clear"
    /\ UNCHANGED <<args, cfg, held, table, unread, pending, stop, asked, dropped, code>>

(***************************************************************************)
(* relay_run, up to its loop.  Whatever fails frees what came before it.   *)
(***************************************************************************)
ClearStop ==
    /\ pc = "clear"
    /\ stop' = FALSE
    /\ pc' = "socket"
    /\ UNCHANGED <<args, cfg, held, table, unread, pending, asked, dropped, code>>

\* dns_socket_open, up to bind.
OpenSocket ==
    /\ pc = "socket"
    /\ \/ pc' = "bind" /\ held' = take("socket") /\ UNCHANGED code
       \/ run_returns(1, {})
    /\ UNCHANGED <<args, cfg, table, unread, pending, stop, asked, dropped>>

\* From bind on: it fails when the port is taken, and dns_socket_open closes
\* its socket.  The upstream parses: config_parse took no other.
Bind ==
    /\ pc = "bind"
    /\ \/ pc' = "map" /\ UNCHANGED <<held, code>>
       \/ run_returns(1, {"socket"})
    /\ UNCHANGED <<args, cfg, table, unread, pending, stop, asked, dropped>>

CreateMap ==
    /\ pc = "map"
    /\ \/ pc' = "table" /\ held' = take("map") /\ UNCHANGED code
       \/ run_returns(1, {"socket"})
    /\ UNCHANGED <<args, cfg, table, unread, pending, stop, asked, dropped>>

CreateTable ==
    /\ pc = "table"
    /\ \/ pc' = "open" /\ held' = take("table") /\ UNCHANGED code
       \/ run_returns(1, {"map", "socket"})
    /\ UNCHANGED <<args, cfg, table, unread, pending, stop, asked, dropped>>

\* dns_table_load_file, up to its loop.
opened == cfg.table_path \in DOMAIN disk

OpenFile ==
    /\ pc = "open"
    /\ \/ /\ opened
          /\ pc' = "load" /\ held' = take("file") /\ UNCHANGED code
          /\ unread' = disk[cfg.table_path]
       \/ /\ ~opened
          /\ run_returns(1, {"table", "map", "socket"}) /\ UNCHANGED unread
    /\ UNCHANGED <<args, cfg, table, pending, stop, asked, dropped>>

\* A slip: the file stays open.
no_memory_file_open == run_returns(1, {"table", "map", "socket"})

\* No memory for a new row.
no_memory == run_returns(1, {"file", "table", "map", "socket"})

LoadLine ==
    /\ pc = "load" /\ unread # <<>>
    /\ LET got == fgets(unread)
           row == row_of(got.line)
       IN  IF ~is_row(got.line)
           THEN unread' = got.rest /\ UNCHANGED <<pc, held, table, code>>
           ELSE \/ /\ table' = upsert(table, row) /\ unread' = got.rest
                   /\ held' = IF is_new(table, row) THEN take("row") ELSE held
                   /\ UNCHANGED <<pc, code>>
                \/ /\ is_new(table, row)
                   /\ no_memory /\ UNCHANGED <<table, unread>>
    /\ UNCHANGED <<args, cfg, pending, stop, asked, dropped>>

TableLoaded ==
    /\ pc = "load" /\ unread = <<>>
    /\ pc' = "cache" /\ free({"file"})
    /\ UNCHANGED <<args, cfg, table, unread, pending, stop, asked, dropped, code>>

\* A slip: a stop asked for while the relay starts is forgotten.
CreateCache_forgets ==
    /\ pc = "cache"
    /\ \/ pc' = "loop" /\ held' = take("cache") /\ UNCHANGED code
       \/ run_returns(1, {"table", "map", "socket"})
    /\ stop' = FALSE
    /\ UNCHANGED <<args, cfg, table, unread, pending, asked, dropped>>

CreateCache ==
    /\ pc = "cache"
    /\ \/ pc' = "loop" /\ held' = take("cache") /\ UNCHANGED code
       \/ run_returns(1, {"table", "map", "socket"})
    /\ UNCHANGED <<args, cfg, table, unread, pending, stop, asked, dropped>>

(***************************************************************************)
(* The loop of relay_run and its end.                                      *)
(***************************************************************************)
\* A turn of the loop, while no stop is asked for: select waits at most
\* RELAY_SELECT_MAX_MS.  A turn in which nothing comes and
\* nothing expires changes nothing.
turning == pc = "loop" /\ ~stop

\* relay_forward: id_map_insert takes a node, unless the map is full or there
\* is no memory.  When the query cannot be sent, id_map_take moves the node
\* to an entry that nothing frees, or, without memory for that, frees it.
Forward ==
    /\ turning /\ pending < MaxPending
    /\ \/ held' = take("node") /\ pending' = pending + 1 /\ UNCHANGED dropped
       \/ /\ dropped < MaxDropped
          /\ held' = take("entry") /\ dropped' = dropped + 1 /\ UNCHANGED pending
    /\ UNCHANGED <<pc, args, cfg, table, unread, stop, asked, code>>

\* handle_upstream_response frees the entry that id_map_take made of the
\* node; id_map_expire frees the node.
AnsweredOrExpired ==
    /\ turning /\ pending > 0
    /\ held' = [held EXCEPT !["node"] = @ - 1] /\ pending' = pending - 1
    /\ UNCHANGED <<pc, args, cfg, table, unread, stop, asked, dropped, code>>

everything == {"map", "table", "cache", "socket"}

\* The flag is seen, or select fails, at any turn.
LoopEnds ==
    /\ pc = "loop"
    /\ run_returns(0, everything)
    /\ UNCHANGED <<args, cfg, table, unread, pending, stop, asked, dropped>>

platform_cleanup == free({"winsock"})

\* The rest of main.
Cleanup ==
    /\ pc = "returned"
    /\ platform_cleanup
    /\ pc' = "exited"
    /\ UNCHANGED <<args, cfg, table, unread, pending, stop, asked, dropped, code>>

(***************************************************************************)
(* console_ctrl_handler and relay_request_stop, once installed.            *)
(***************************************************************************)
relay_request_stop == stop' = TRUE

CtrlC ==
    /\ pc \notin {"arguments", "platform", "handler", "exited"}
    /\ relay_request_stop
    /\ asked' = (asked \/ pc # "clear")
    /\ UNCHANGED <<pc, args, cfg, held, table, unread, pending, dropped, code>>

\* The thread of main.
Main ==
    \/ ParseArgument \/ ArgumentsParsed \/ PlatformInit \/ InstallHandler
    \/ ClearStop \/ OpenSocket \/ Bind \/ CreateMap \/ CreateTable \/ OpenFile
    \/ LoadLine \/ TableLoaded \/ CreateCache
    \/ Forward \/ AnsweredOrExpired \/ LoopEnds \/ Cleanup

Next == (Main \/ CtrlC) /\ UNCHANGED disk

Spec == Init /\ [][Next]_vars

\* main never waits for longer than select does.
FairSpec == Spec /\ WF_vars(Main /\ UNCHANGED disk)

(***************************************************************************)
(* Properties.                                                             *)
(***************************************************************************)
(***************************************************************************)
(* Whatever fails, and whenever the user stops the program, everything     *)
(* that was allocated is freed, once: at every point the heap holds what   *)
(* the structures of relay_run point to.  Of the entries that id_map_take  *)
(* hands out this says only that as many are left as queries could not be  *)
(* sent: relay_forward drops those, though id_map.h asks it to free them.  *)
(***************************************************************************)
NothingLeaks ==
    /\ \A r \in Resource \ {"node", "entry", "row"} : held[r] \in 0 .. 1
    /\ held["entry"] = dropped
    /\ held["map"] = 1 => held["node"] = pending
    /\ held["table"] = 1 => held["row"] = Cardinality(entries(table))
    /\ pc = "exited" => \A r \in Resource \ {"entry"} : held[r] = 0

\* What the last row for it says of every name.
lookups_as_written ==
    LET lines == disk[cfg.table_path]
        rows(w) == {n \in DOMAIN lines :
                       is_row(lines[n]) /\ canonical(lines[n][2]) = canonical(w)}
        last(w) == CHOOSE n \in rows(w) : \A m \in rows(w) : m <= n
    IN  \A w \in Word : dns_table_lookup(table, w) =
            IF rows(w) = {} THEN "MISS" ELSE lines[last(w)][1]

\* fgets takes every line whole.
lines_fit == \A n \in DOMAIN disk[cfg.table_path] :
    Len(disk[cfg.table_path][n]) <= LINE_CAP

(***************************************************************************)
(* When the loop begins the table says of every name what the last row for *)
(* it in the file of the command line says, whatever its spelling and      *)
(* whichever chains its names share.  For files whose lines fgets takes    *)
(* whole; of a longer one it reads the rest as a line of its own.          *)
(***************************************************************************)
TableAsWritten == pc = "loop" /\ lines_fit => lookups_as_written

(***************************************************************************)
(* A stop asked for once relay_run has cleared the flag ends the process,  *)
(* during the start and in the loop, whatever traffic there is.            *)
(***************************************************************************)
StopEnds == asked ~> pc = "exited"

=============================================================================
