------------------------------ MODULE MCReader ------------------------------
(* A reader of all devices beside the writers of MCRegistry.               *)
EXTENDS MCRegistry, ServiceReader

(* Methods that declare nothing of themselves, or something; the second    *)
(* provider's last one has no template.                                    *)
Method(name, readOnly, template, mutability, danger, routable) ==
    [Name |-> name, ReadOnly |-> readOnly, Template |-> template,
     mutability |-> mutability, danger |-> danger, routable |-> routable]
MCMethods ==
    [x \in Provider |->
        {Method("get", TRUE, <<181, 4>>, "", "", ""),
         Method("set", FALSE, <<181, 5>>, "", "", ""),
         Method("probe", TRUE, <<181, 9>>, "unknown", "", ""),
         Method("reset", FALSE, <<181, 36>>, "other", "safe", "no")}
        \union (IF x \in InitialProviders THEN {}
                ELSE {Method("broken", TRUE, Nil, "", "", "")})]

=============================================================================
