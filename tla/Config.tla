-------------------------------- MODULE Config --------------------------------
(***************************************************************************)
(* What main() makes of the command line: parse_command_line_arguments()   *)
(* refuses it or fills a ServerConf, from which main() builds a stream     *)
(* manager and a server.  An option is given with a value or is absent;    *)
(* the names of ports, files and levels do not matter here.                *)
(***************************************************************************)
CONSTANT ModeNames    \* what may be asked for with -m, in lower case

ASSUME ModeNamesAssumption == {"http", "socks5", "tun"} \subseteq ModeNames

(* The key, the certificate and the CA of -k, -s and -c *)
TlsOptions == [private_key : BOOLEAN, server_cert : BOOLEAN, ca_cert : BOOLEAN]
NoFiles == [private_key |-> FALSE, server_cert |-> FALSE, ca_cert |-> FALSE]
Absent(options)   == \A f \in DOMAIN options : ~options[f]
Complete(options) == \A f \in DOMAIN options : options[f]

(* capitals: the mode is written with capital letters, as in "-m TUN" *)
Arguments == [help : BOOLEAN, mode : ModeNames, capitals : BOOLEAN, tls : BOOLEAN,
              files : TlsOptions, target_host : BOOLEAN, target_port : BOOLEAN]

VARIABLES argv,       \* the command line
          step,       \* how far main() is: "start", "parsed", "built", "serving", "finished"
          conf,       \* the ServerConf
          backend,    \* the manager that is built, and whether it supports UDP ASSOCIATE
          server      \* the class of the server that runs

vars == <<argv, step, conf, backend, server>>

Init ==
    /\ argv \in Arguments
    /\ step = "start"
    /\ conf = [mode |-> "", tls_options |-> NoFiles, target |-> FALSE]
    /\ backend = [name |-> "none", udp |-> FALSE]
    /\ server = "none"

-----------------------------------------------------------------------------
(* -m is compared as it was written: only ServerConf::mode is lowered *)
tun_written == argv.mode = "tun" /\ ~argv.capitals

(* Slip: an empty private key is not refused *)
missing_KeyOptional ==
    \/ (argv.tls \/ tun_written) /\ ~(argv.files.server_cert /\ argv.files.ca_cert)
    \/ tun_written /\ ~(argv.target_host /\ argv.target_port)

(* A parameter that the others ask for is not there *)
missing ==
    \/ (argv.tls \/ tun_written) /\ ~Complete(argv.files)
    \/ tun_written /\ ~(argv.target_host /\ argv.target_port)

(* Without -t and without mode "tun" the files that are named are dropped *)
parse_command_line_arguments ==
    /\ step = "start"
    /\ IF argv.help \/ missing
       THEN step' = "finished" /\ UNCHANGED conf
       ELSE /\ step' = "parsed"
            /\ conf' = [mode        |-> argv.mode,
                        tls_options |-> IF argv.tls \/ tun_written THEN argv.files
                                                                   ELSE conf.tls_options,
                        target      |-> argv.target_host /\ argv.target_port]
    /\ UNCHANGED <<argv, backend, server>>

tls_enabled == ~Absent(conf.tls_options)

(* A mode that is not known is taken for "tun" *)
make_backend ==
    /\ step = "parsed" /\ step' = "built"
    /\ backend' = CASE conf.mode = "http"   -> [name |-> "HttpStreamManager", udp |-> FALSE]
                    [] conf.mode = "socks5" -> [name |-> "SocksStreamManager", udp |-> ~tls_enabled]
                    [] OTHER                -> [name |-> "FwdStreamManager", udp |-> FALSE]
    /\ UNCHANGED <<argv, conf, server>>

run_server ==
    /\ step = "built" /\ step' = "serving"
    /\ server' = IF conf.tls_options.private_key THEN "TlsServer" ELSE "Server"
    /\ UNCHANGED <<argv, conf, backend>>

Next == parse_command_line_arguments \/ make_backend \/ run_server

Spec == Init /\ [][Next]_vars

-----------------------------------------------------------------------------
(* A program that serves does as -t says: with -t its clients speak TLS, a  *)
(* TLS server has all three files, and SOCKS mode offers UDP ASSOCIATE,     *)
(* whose datagrams are not encrypted, exactly if its clients are not.       *)
(* (main.cpp decides three times: by -t or the mode, by any of the three    *)
(* files, and by the private key.)                                          *)
TlsHonoured ==
    step = "serving" =>
        /\ argv.tls => server = "TlsServer"
        /\ server = "TlsServer" => Complete(conf.tls_options)
        /\ backend.udp <=> backend.name = "SocksStreamManager" /\ server = "Server"

(* The messages of parse_command_line_arguments: in "tun" mode the TLS      *)
(* files and the target must be given, so a program that tunnels has them.  *)
(* It does not hold: the mode is compared before it is lowered.             *)
TunChecked ==
    step = "serving" /\ backend.name = "FwdStreamManager" =>
        server = "TlsServer" /\ conf.target
=============================================================================
