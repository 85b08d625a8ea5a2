----------------------------- MODULE ConfigProofs -----------------------------
(***************************************************************************)
(* main() looks at the command line three times to tell whether its        *)
(* clients speak TLS.  The three agree because the options of TLS are kept *)
(* all together or not at all, whatever modes there are.                   *)
(***************************************************************************)
EXTENDS Config, TLAPS

Options == {"private_key", "server_cert", "ca_cert"}
Together(files) == Complete(files) \/ Absent(files)

IInv ==
    /\ argv \in Arguments
    /\ conf.tls_options \in TlsOptions
    /\ step = "start" => Absent(conf.tls_options)
    /\ step \in {"parsed", "built", "serving"} =>
           /\ Together(conf.tls_options)
           /\ argv.tls => Complete(conf.tls_options)
    /\ step \in {"built", "serving"} =>
           (backend.udp <=> backend.name = "SocksStreamManager" /\ Absent(conf.tls_options))
    /\ step = "serving" =>
           server = IF conf.tls_options.private_key THEN "TlsServer" ELSE "Server"

-----------------------------------------------------------------------------
(* The three options that Complete and Absent quantify over *)
LEMMA FileNames ==
    ASSUME NEW files \in TlsOptions
    PROVE  /\ DOMAIN files = Options
           /\ Complete(files) <=> files.private_key /\ files.server_cert /\ files.ca_cert
           /\ Absent(files) <=> ~files.private_key /\ ~files.server_cert /\ ~files.ca_cert
  BY DEF TlsOptions, Options, Complete, Absent

LEMMA InitGood == Init => IInv
  <1> SUFFICES ASSUME Init PROVE IInv
    OBVIOUS
  <1>1. NoFiles \in TlsOptions /\ Absent(NoFiles)
    BY DEF TlsOptions, Absent, NoFiles
  <1>2. argv \in Arguments /\ conf.tls_options = NoFiles /\ step = "start"
    BY DEF Init
  <1>3. QED BY <1>1, <1>2 DEF IInv

LEMMA StepGood == IInv /\ [Next]_vars => IInv'
  <1> SUFFICES ASSUME IInv, [Next]_vars PROVE IInv'
    OBVIOUS
  <1>1. argv.files \in TlsOptions /\ argv.tls \in BOOLEAN
    BY DEF IInv, Arguments
  <1>2. CASE parse_command_line_arguments
    <2>1. CASE argv.help \/ missing
      BY <1>2, <2>1 DEF parse_command_line_arguments, IInv
    <2>2. CASE ~(argv.help \/ missing)
      <3>1. /\ step' = "parsed" /\ argv' = argv
            /\ conf'.tls_options = IF argv.tls \/ tun_written THEN argv.files
                                                              ELSE conf.tls_options
        BY <1>2, <2>2 DEF parse_command_line_arguments
      <3>2. argv.tls \/ tun_written => Complete(argv.files)
        BY <2>2 DEF missing
      <3>3. Absent(conf.tls_options)
        BY <1>2 DEF parse_command_line_arguments, IInv
      <3>4. Together(conf'.tls_options) /\ (argv.tls => Complete(conf'.tls_options))
        BY <3>1, <3>2, <3>3 DEF Together
      <3>5. conf'.tls_options \in TlsOptions
        BY <1>1, <3>1 DEF IInv
      <3>6. QED BY <3>1, <3>4, <3>5 DEF IInv
    <2>3. QED BY <2>1, <2>2
  <1>3. CASE make_backend
    <2>1. step = "parsed" /\ step' = "built" /\ argv' = argv /\ conf' = conf
      BY <1>3 DEF make_backend
    <2>2. backend'.udp <=> backend'.name = "SocksStreamManager" /\ Absent(conf.tls_options)
      BY <1>3 DEF make_backend, tls_enabled
    <2>3. QED BY <2>1, <2>2 DEF IInv
  <1>4. CASE run_server
    BY <1>4 DEF run_server, IInv
  <1>5. CASE UNCHANGED vars
    BY <1>5 DEF vars, IInv
  <1>6. QED BY <1>2, <1>3, <1>4, <1>5 DEF Next

(* A program that serves does as -t says, for every command line: three     *)
(* places in main.cpp that look at different options come to one answer.    *)
THEOREM AlwaysHonoured == Spec => []TlsHonoured
  <1>1. IInv => TlsHonoured
    <2> SUFFICES ASSUME IInv, step = "serving"
                 PROVE  /\ argv.tls => server = "TlsServer"
                        /\ server = "TlsServer" => Complete(conf.tls_options)
                        /\ backend.udp <=> backend.name = "SocksStreamManager" /\ server = "Server"
      BY DEF TlsHonoured
    <2>1. /\ conf.tls_options \in TlsOptions /\ Together(conf.tls_options)
          /\ argv.tls => Complete(conf.tls_options)
          /\ backend.udp <=> backend.name = "SocksStreamManager" /\ Absent(conf.tls_options)
          /\ server = IF conf.tls_options.private_key THEN "TlsServer" ELSE "Server"
      BY DEF IInv
    <2>2. CASE Complete(conf.tls_options)
      BY <2>1, <2>2, FileNames
    <2>3. CASE Absent(conf.tls_options)
      BY <2>1, <2>3, FileNames
    <2>4. QED BY <2>1, <2>2, <2>3 DEF Together
  <1>2. QED BY <1>1, InitGood, StepGood, PTL DEF Spec
=============================================================================
