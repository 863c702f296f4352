------------------------------ MODULE MCPortal ------------------------------
EXTENDS Portal
MCPages == {DashboardApp, DashboardViewerApp, LogsApp, QoSApp, VPNServerApp,
            VPNClientApp, DDNSApp, ReportsApp, NATRulesApp, IPSApp,
            RoutingApp, WANApp, LANApp, DHCPApp, WiFiApp}
=============================================================================
