------------------------------ MODULE MCWorkflow ------------------------------
EXTENDS Workflow

Order == <<"fig09", "fig10", "fig12", "fig13", "fig15", "fig16", "fig17",
           "fig18_20", "fig21", "fig22", "fig23", "table4">>

(* The first stage and the figures, with each stage between them.          *)
MCPlans == {<<"fig08", Order[i], "figures">> : i \in DOMAIN Order}
             \cup {<<"fig08", "fig12", "table4", "figures">>}
=============================================================================
