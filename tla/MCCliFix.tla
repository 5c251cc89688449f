------------------------------ MODULE MCCliFix ------------------------------
EXTENDS CliFix

\* A Postfix file whose protocols go on over two lines and are named twice, and
\* whose last parameter is continued; a Dovecot file with the parameter in a block.
Postfix == <<Setting("smtpd_tls_protocols", <<"">>), Line("more", "", <<"!SSLv2">>, TRUE), Comment,
             Setting("smtpd_tls_cert_file", <<"cert">>), Setting("smtpd_tls_key_file", <<"key">>),
             Setting("mynetworks", <<"net1">>), Line("more", "", <<"net2">>, TRUE)>>
Twice == <<Setting("smtpd_tls_protocols", <<"!SSLv2">>),
           Setting("smtpd_tls_protocols", <<"!SSLv3">>), Line("more", "", <<"!TLSv1">>, TRUE)>>
Dovecot == <<Line("set", "ssl_min_protocol", <<"TLSv1">>, TRUE), Setting("ssl", <<"yes">>)>>
\* The edit below gives its last parameter the planned value, over two lines.
Short == <<Setting("smtpd_tls_protocols", <<">=TLSv1.2,">>)>>
PostfixFiles == {[postfix |-> ls, dovecot |-> Missing] : ls \in {Postfix, Twice, Short}}
BothFiles == PostfixFiles \cup {[postfix |-> Missing, dovecot |-> Dovecot]}

Ask(rule, service, yes, planOnly) ==
    [rule |-> rule, service |-> service, path |-> "default", yes |-> yes, planOnly |-> planOnly]
Asked == {Ask("TLS_LEGACY_VERSION", "auto", TRUE, FALSE), Ask("STARTTLS_MISSING", "postfix", FALSE, FALSE),
          Ask("STARTTLS_MISSING", "auto", TRUE, TRUE)}

Pair == {<<<<"cert">>, <<"key">>>>}
Saved == {Setting("relayhost", <<"relay">>), Line("more", "", <<"!TLSv1.1">>, TRUE)}
=============================================================================
