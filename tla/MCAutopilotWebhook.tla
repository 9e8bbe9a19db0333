------------------------- MODULE MCAutopilotWebhook -------------------------
(* One workload of every sort the webhook tells apart, and three it leaves alone: *)
(* a Deployment in a selected namespace that is no control plane, one in namespace *)
(* hypershift, which nobody labels, and a Pod without HyperShift's labels.         *)
EXTENDS AutopilotWebhook, TLC

C(context) == [securityContext |-> context, resources |-> "own", volumeMounts |-> "own"]

W(kind, namespace, affinity, network, claims, init, main) ==
    [kind |-> kind, namespace |-> namespace, labelled |-> TRUE, network |-> network,
     pod |-> [securityContext |-> "own", affinity |-> affinity,
              volumes |-> <<"tls">>, volumeClaimTemplates |-> claims],
     init |-> init, main |-> main]

MCNames == {"etcd", "kube-apiserver", "router", "console", "outsider", "operator"}
MCSelected == {"clusters", "elsewhere"}
Two == <<C("own"), C("own")>>

Console == W("Pod", "clusters", "missing", FALSE, <<>>, <<>>, <<C("own")>>)

MCManifests ==
    "etcd" :> {W("StatefulSet", "clusters", "own", FALSE, <<"data">>, Two, <<C("own")>> \o Two)}
    @@ "kube-apiserver" :> {W("Deployment", "clusters", "own", FALSE, <<>>, Two, Two),
                            W("Deployment", "clusters", "missing", FALSE, <<>>, <<>>,
                              <<C("missing"), C("own"), C("missing")>>)}
    @@ "router" :> {W("Deployment", "clusters", "missing", TRUE, <<>>, <<>>, <<C("missing")>>)}
    @@ "console" :> {Console, [Console EXCEPT !.labelled = FALSE]}
    @@ "outsider" :> {W("Deployment", "elsewhere", "missing", FALSE, <<>>, <<>>, <<C("own")>>)}
    @@ "operator" :> {W("Deployment", "hypershift", "missing", FALSE, <<>>, <<>>, <<C("own")>>)}
=============================================================================
