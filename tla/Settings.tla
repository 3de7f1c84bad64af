------------------------------ MODULE Settings ------------------------------
(***************************************************************************)
(* config/config.go: how the configuration comes about - New's defaults,   *)
(* ConfigureWithViper from a file, and the environment on top.  A value is *)
(* a sequence of pieces, <<>> the empty string and <<" ">> a blank one;    *)
(* numbers and flags that are read in the same way are stood for by one    *)
(* field of each kind.                                                     *)
(***************************************************************************)
EXTENDS Integers, Sequences, FiniteSets

CONSTANTS IntranetIP   \* what getIntranetIP finds, a value

VARIABLES file,       \* viper: key -> value
          environ,    \* environment: name -> value
          config,     \* field -> value, after New or ConfigureWithViper
          configured  \* how often ConfigureWithViper has run

setVars == <<file, environ, config, configured>>

Empty == <<>>
Unset == <<"unset">>   \* no such key
Blank(v) == v \in {<<>>, <<" ">>}

\* The host has an address.  Of a host without one getIntranetIP returns the empty
\* string, and a file that gives no address leaves the URLs without a host.
SettingsAssumption == IntranetIP \in Seq(STRING) /\ ~Blank(IntranetIP)

getString(v, default) == IF v \in {Empty, Unset} THEN default ELSE v

getBool(v, default) == IF v = Unset THEN default ELSE v = <<"true">>
\* An explicit 0 is the same as none (getInt, getInt64, getDuration).
getInt(v, default)    == IF v = 0 THEN default ELSE v
StringEnv(v, env)     == IF env = Empty THEN v ELSE env
Either(v, fallback)   == IF Blank(v) THEN fallback ELSE v

\* A list, or a scalar with commas; viper cuts a scalar at blanks only, so that
\* commas alone come back as one element.  Parts are what stands between commas.
getStringSlice(v, default) ==
    CASE v.kind = "unset" -> default
      [] v.kind = "list"  -> IF v.parts = <<>> THEN default ELSE v.parts
      [] v.kind = "comma" -> LET out == SelectSeq(v.parts, LAMBDA p : ~Blank(p))
                             IN IF out = <<>> THEN << <<",">> >> ELSE out

-----------------------------------------------------------------------------
(* Sections of New and ConfigureWithViper.                                 *)

\* New: the defaults a file does not give.
New == [mode |-> <<"release">>, appName |-> <<"app">>, rootDir |-> <<"data">>,
        welcome |-> <<"welcome to ", "placeholder">>,
        ip |-> Empty, webLogin |-> Empty, base |-> Empty, h5 |-> Empty, api |-> Empty,
        level |-> 0, dir |-> Empty,
        fileService |-> <<"minio">>, minio |-> Empty, upload |-> Empty, download |-> Empty,
        key |-> Empty, secret |-> Empty, token |-> Empty,
        text |-> <<"default">>, expire |-> 300, number |-> 100, flag |-> TRUE, addrs |-> <<>>,
        detail |-> TRUE]

\* strings.ReplaceAll of the placeholder, {{appName}} in the code.
Filled(v, name) == [i \in DOMAIN v |-> IF v[i] = "placeholder" THEN name[1] ELSE v[i]]

\* Without a mode the server runs in debug mode, whatever New says.
Basic(c) ==
    LET name == getString(file.appName, c.appName)
        text == getString(file.welcome, c.welcome)
    IN [c EXCEPT !.mode = getString(file.mode, <<"debug">>),
                 !.appName = name,
                 !.rootDir = getString(file.rootDir, @),
                 !.welcome = IF Blank(text) THEN text ELSE Filled(text, name)]

External(c) ==
    LET ip   == Either(getString(file.ip, c.ip), IntranetIP)
        base == Either(getString(file.base, c.base), <<"http://">> \o ip \o <<":8090">>)
    IN [c EXCEPT !.ip = ip,
                 !.webLogin = Either(getString(file.webLogin, @), <<"http://">> \o ip \o <<":82">>),
                 !.base = base,
                 !.h5 = Either(@, base \o <<"/web">>),
                 !.api = Either(@, base \o <<"/v1">>)]

\* Fault: the directory of the last time is the default.
configureLog_KeepsDir(c) ==
    LET dir == getString(file.dir, Either(c.dir, <<"logs">>))
    IN [c EXCEPT !.level = IF file.level # 0 THEN file.level - 2
                           ELSE IF c.mode = <<"debug">> THEN -1 ELSE 0,
                 !.dir = IF dir[1] = "/" THEN dir ELSE c.rootDir \o <<"/">> \o dir]

configureLog(c) ==
    LET dir == Either(getString(file.dir, Empty), <<"logs">>)
    IN [c EXCEPT !.level = IF file.level # 0 THEN file.level - 2
                           ELSE IF c.mode = <<"debug">> THEN -1 ELSE 0,
                 !.dir = IF dir[1] = "/" THEN dir ELSE c.rootDir \o <<"/">> \o dir]

FileServices(c) ==
    LET service == getString(file.fileService, c.fileService)
        url == getString(file.minio, c.minio)
        at  == IF service = <<"minio">> /\ Blank(url) THEN <<"http://">> \o c.ip \o <<":9000">> ELSE url
    IN [c EXCEPT !.fileService = service,
                 !.minio = at,
                 !.upload = Either(getString(file.upload, @), at),
                 !.download = Either(getString(file.download, @), at)]

\* File, then AWS_*, then TS_S3_*, each field on its own.
Credentials(c) ==
    [c EXCEPT !.key = StringEnv(StringEnv(getString(file.key, @), environ.awsKey), environ.tsKey),
              !.secret = StringEnv(StringEnv(getString(file.secret, @), environ.awsSecret), environ.tsSecret),
              !.token = StringEnv(StringEnv(getString(file.token, @), environ.awsToken), environ.tsToken)]

\* Database, cluster, cache and accounts: a text and a duration.
Stores(c) == [c EXCEPT !.text = getString(file.text, @), !.expire = getInt(file.expire, @)]
\* SMS, IM, avatars, short numbers, robot, logins, rtc, registration: a number and a flag.
Services(c) == [c EXCEPT !.number = getInt(file.number, @), !.flag = getBool(file.flag, @)]
\* The search backends; the addresses are a list.
Search(c) == [c EXCEPT !.addrs = getStringSlice(file.addrs, @)]
\* Groups, push, messages, wechat, tracing, support: a flag.
Push(c) == [c EXCEPT !.detail = getBool(file.detail, @)]

Configured(c) ==
    Push(Search(Services(Credentials(FileServices(Stores(configureLog(External(Basic(c)))))))))

ConfigureWithViper ==
    /\ config' = Configured(config)
    /\ configured' = configured + 1
    /\ UNCHANGED <<file, environ>>

-----------------------------------------------------------------------------
(* Files and environments: what differs from an empty file, one topic at a *)
(* time.                                                                   *)

EmptyFile == [mode |-> Unset, appName |-> Unset, rootDir |-> Unset, welcome |-> Unset,
              ip |-> Unset, webLogin |-> Unset, base |-> Unset, level |-> 0, dir |-> Unset,
              fileService |-> Unset, minio |-> Unset, upload |-> Unset, download |-> Unset,
              key |-> Unset, secret |-> Unset, token |-> Unset,
              text |-> Unset, expire |-> 0, number |-> 0, flag |-> Unset,
              addrs |-> [kind |-> "unset"], detail |-> Unset]
Bare == [awsKey |-> Empty, awsSecret |-> Empty, awsToken |-> Empty,
         tsKey |-> Empty, tsSecret |-> Empty, tsToken |-> Empty]

Maybe(v) == {Unset, Empty, <<" ">>, v}
Given(v) == {Unset, v}
Lists == {[kind |-> "unset"]}
         \cup [kind : {"list"}, parts : {<<>>, << <<"a">> >>, << <<"a">>, <<"b">> >>}]
         \cup [kind : {"comma"}, parts : {<< <<>>, <<>> >>, << <<"a">>, <<"b">> >>, << <<"a">>, <<" ">> >>}]

Greeting == <<"hi ", "placeholder", "!">>

\* The application's name, its greeting, and the values that stand for many.
Wording(a, w, t, f, n) == [EmptyFile EXCEPT !.appName = a, !.welcome = w, !.text = t, !.flag = f, !.detail = f,
                                            !.number = n, !.expire = n]
WordFiles == {Wording(a, w, t, f, n) :
                 a \in Given(<<"Octo">>), w \in Maybe(Greeting), t \in Maybe(<<"t">>),
                 f \in {Unset, <<"true">>, <<"false">>}, n \in {0, 7}}
\* Mode, directories, log level and the search addresses.
Logging(m, r, l, d, a) == [EmptyFile EXCEPT !.mode = m, !.rootDir = r, !.level = l, !.dir = d, !.addrs = a]
LogFiles == {Logging(m, r, l, d, a) :
                m \in Given(<<"release">>), r \in Given(<<"root">>), l \in 0 .. 3,
                d \in Maybe(<<"sub">>) \cup {<<"/", "var">>}, a \in Lists}
\* The addresses the server and the file service are reached at.
Addressing(i, w, b, s, m, u, d) == [EmptyFile EXCEPT !.ip = i, !.webLogin = w, !.base = b, !.fileService = s,
                                                     !.minio = m, !.upload = u, !.download = d]
AddressFiles == {Addressing(i, w, b, s, m, u, d) :
                    i \in Maybe(<<"1.2.3.4">>), w \in Given(<<"login">>), b \in Maybe(<<"base">>),
                    s \in Given(<<"s3">>), m \in Maybe(<<"minio">>), u \in Maybe(<<"up">>), d \in Given(<<"down">>)}
Keys(k, s, t) == [EmptyFile EXCEPT !.key = k, !.secret = s, !.token = t]
KeyFiles == {Keys(k, s, t) : k, s, t \in Given(<<"file">>)}

Environs == {[awsKey |-> a, awsSecret |-> b, awsToken |-> d, tsKey |-> e, tsSecret |-> f, tsToken |-> g] :
                a, b, d \in {Empty, <<"aws">>}, e, f, g \in {Empty, <<"ts">>}}

Init ==
    /\ \/ file \in WordFiles \cup LogFiles \cup AddressFiles /\ environ = Bare
       \/ file \in KeyFiles /\ environ \in Environs
    /\ config = New
    /\ configured = 0

Next == configured < 2 /\ ConfigureWithViper

Spec == Init /\ [][Next]_setVars

-----------------------------------------------------------------------------
(* Properties                                                              *)

\* Configuring again from the same file and environment changes nothing: no
\* default is applied to its own result.
ConfigureTwice == configured > 0 => Configured(config) = config

\* Whatever the file leaves out or leaves blank, every address can be used, and
\* those that are derived name the one host the server is reached at.
AddressesUsable ==
    configured > 0 =>
        /\ ~Blank(config.ip) /\ ~Blank(config.base) /\ ~Blank(config.webLogin)
        /\ config.h5 = config.base \o <<"/web">> /\ config.api = config.base \o <<"/v1">>
        /\ Blank(getString(file.base, Empty)) => config.base[2] = config.ip[1]
        /\ config.fileService = <<"minio">> =>
              /\ ~Blank(config.upload) /\ ~Blank(config.download)
              /\ Blank(getString(file.minio, Empty)) => config.minio[2] = config.ip[1]

\* The message greets with the name the application really has.
WelcomeNamed ==
    configured > 0 => \A i \in DOMAIN config.welcome :
        /\ config.welcome[i] # "placeholder"
        /\ config.welcome[i] \in {"app", "Octo"} => config.welcome[i] = config.appName[1]

\* Key, secret and session token are decided each on its own: what TS_S3_* gives is
\* used, the host's AWS_* is used only for a field that TS_S3_* leaves out, and the
\* file's only for one that both leave out.  Half a pair, or a pair without a token,
\* is thus completed from the host; the property accepts that.
CredentialsRanked ==
    configured > 0 =>
        LET used == <<config.key, config.secret, config.token>>
            ts   == <<environ.tsKey, environ.tsSecret, environ.tsToken>>
            aws  == <<environ.awsKey, environ.awsSecret, environ.awsToken>>
            own  == <<file.key, file.secret, file.token>>
        IN \A i \in 1 .. 3 :
              /\ ts[i] # Empty => used[i] = ts[i]
              /\ ts[i] = Empty /\ aws[i] # Empty => used[i] = aws[i]
              /\ ts[i] = Empty /\ aws[i] = Empty => used[i] = getString(own[i], Empty)

\* A flag that is switched off in the file is off, and the log goes below the
\* root directory unless an absolute path is given.
FileDecides ==
    configured > 0 =>
        /\ file.flag # Unset => (config.flag <=> file.flag = <<"true">>)
        /\ file.detail # Unset => (config.detail <=> file.detail = <<"true">>)
        /\ config.dir[1] \in {"/", config.rootDir[1]}
        /\ config.level = -1 <=> file.level = 1 \/ (file.level = 0 /\ config.mode = <<"debug">>)
=============================================================================
