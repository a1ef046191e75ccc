-------------------------- MODULE ProviderOptions ---------------------------
(***************************************************************************)
(* What the providers hand to autoconfig.Apply, and what their clients do. *)
(* No Build reports an error: a client that could not be built is          *)
(* installed like another, and what differs is how it takes a call.        *)
(***************************************************************************)

\* selective: a client is rebuilt only when the fields of its connection change, else on
\* every change.  hasClose: replaced clients are closed.
kafkaApply      == [selective |-> FALSE, hasClose |-> TRUE]
postgresApply   == [selective |-> FALSE, hasClose |-> TRUE]
kubernetesApply == [selective |-> TRUE,  hasClose |-> FALSE]
prometheusApply == [selective |-> FALSE, hasClose |-> FALSE]
azureApply      == [selective |-> FALSE, hasClose |-> FALSE]
graylogApply    == [selective |-> FALSE, hasClose |-> FALSE]

\* Does a call on a client that was not built return an error?  If not, it goes through
\* a nil pointer.
kafkaClient      == [checksInit |-> FALSE]
postgresClient   == [checksInit |-> TRUE]
kubernetesClient == [checksInit |-> TRUE]
prometheusClient == [checksInit |-> FALSE]
azureClients     == [checksInit |-> TRUE]
graylogClient    == [checksInit |-> TRUE]

Options(apply, client) == [selective  |-> apply.selective, hasClose |-> apply.hasClose,
                           checksInit |-> client.checksInit]

OptionSets == [kafka      |-> Options(kafkaApply, kafkaClient),
               postgres   |-> Options(postgresApply, postgresClient),
               kubernetes |-> Options(kubernetesApply, kubernetesClient),
               prometheus |-> Options(prometheusApply, prometheusClient),
               azure      |-> Options(azureApply, azureClients),
               graylog    |-> Options(graylogApply, graylogClient)]
=============================================================================
